---- MODULE Spec2Model ----
(***************************************************************************)
(* Model of the two-phase todo application.                                *)
(*   Phase 2: the FastAPI backend -- the JWT gate (middleware/auth.py),    *)
(*            request validation (schemas/task.py), the route handlers     *)
(*            (api/routes/tasks.py) and TaskService over the tasks table.  *)
(*   Phase 1: the in-memory TaskManager.                                   *)
(* Every HTTP request is one action: the route handlers are `async def`    *)
(* bodies without an await between their first and last statement, so a    *)
(* handler runs to completion once started.  Two server processes on one   *)
(* database are not held to that: SpecSessions takes a request through its *)
(* database session step by step (open, lookup, write, close).             *)
(***************************************************************************)
EXTENDS Integers, Sequences, FiniteSets, TLC

VARIABLES
    tasks,      \* phase 2: rows of the "tasks" table (a set of records)
    max_issued, \* phase 2: the highest task id the table has ever assigned (history)
    task_seq,   \* phase 2: last value handed out by the id sequence (PostgreSQL)
    dialect,    \* phase 2: the database behind DATABASE_URL: "sqlite" | "postgresql"
    now,        \* the clock read by datetime.utcnow() / datetime.now()
    last,       \* phase 2: the request being answered and its response
    tm_tasks,   \* phase 1: TaskManager._tasks (a sequence)
    tm_next_id, \* phase 1: TaskManager._next_id
    tm_adds,    \* phase 1: the number of add_task calls made so far (history)
    tm_last,    \* phase 1: the TaskManager call made last and its result
    sessions,   \* phase 2: per server process, the request it serves and its session
    purged,     \* phase 2: the run with the requests of one user left out (history)
    users,      \* phase 2: rows of the "users" table (a set of records)
    issued,     \* phase 2: the token signup or login issued last, and to whom (history)
    gate_log,   \* phase 2: the requests the gate has decided, with its decisions (history)
    logged_out, \* phase 2: the tokens that came with a POST /auth/logout (history)
    tm_listed,  \* phase 1: the list a caller got from TaskManager.list_tasks
    orchestrator \* phase 1: the AgentOrchestrator (its task_manager, execution_history)

vars == <<tasks, max_issued, task_seq, dialect, now, last, tm_tasks, tm_next_id, tm_adds, tm_last,
          sessions, purged, users, issued, gate_log, logged_out, tm_listed, orchestrator>>
svars == <<sessions, purged>>
avars == <<users, issued, gate_log, logged_out>>
ovars == <<tm_listed, orchestrator>>
evars == <<avars, ovars>>
p2vars == <<tasks, max_issued, task_seq, dialect, last>>
p1vars == <<tm_tasks, tm_next_id, tm_adds, tm_last>>

---------------------------------------------------------------------------
(* Bounds of the model. *)
MaxTime == 1        \* the clock runs 0..MaxTime
MaxId == 2          \* no task id above MaxId is handed out
MaxRows == 2        \* at most MaxRows rows (tasks) are held at a time
MaxDays == 9         \* where tokens are issued the clock counts days, 0..MaxDays
MaxHistory == 2      \* AgentOrchestrator.execution_history holds at most MaxHistory entries
MaxInput == 3        \* a user_input of the agent holds at most MaxInput units
MaxToggles == 3                \* toggles applied in a row to one task

(* Program constants. *)
TitleMaxLength == 255
TitleMinLength == 1
DescriptionMaxLength == 10000

Users == {"u1", "u2"}

---------------------------------------------------------------------------
(* Python values.  None is a record so that it compares with rows and with *)
(* strings; a str is a record holding its characters run-length encoded:   *)
(* <<c, n>> stands for the character c repeated n times.                   *)
None == [none |-> TRUE]

S(runs) == [str |-> runs]

Rep(c, n) == IF n = 0 THEN S(<<>>) ELSE S(<< <<c, n>> >>)

Cat(s, t) == S(s.str \o t.str)

RECURSIVE RunsLen(_)
RunsLen(r) == IF r = <<>> THEN 0 ELSE Head(r)[2] + RunsLen(Tail(r))

(* len(s) *)
StrLen(s) == RunsLen(s.str)

IsSpace(c) == c = " "

RECURSIVE LStripRuns(_)
LStripRuns(r) ==
    IF r = <<>> THEN <<>>
    ELSE IF IsSpace(Head(r)[1]) THEN LStripRuns(Tail(r))
    ELSE r

RECURSIVE RStripRuns(_)
RStripRuns(r) ==
    IF r = <<>> THEN <<>>
    ELSE IF IsSpace(r[Len(r)][1]) THEN RStripRuns(SubSeq(r, 1, Len(r) - 1))
    ELSE r

(* str.strip() *)
Strip(s) == S(RStripRuns(LStripRuns(s.str)))

(* Python truthiness of an Optional[str]: None and "" are falsy. *)
Truthy(v) == v # None /\ v.str # <<>>

---------------------------------------------------------------------------
(* schemas/task.py: request bodies.  A raw body is [title, description],   *)
(* each a str or None (absent or null).  Pydantic checks a field's         *)
(* min_length / max_length on the value as sent and only then runs the     *)
(* field_validator, whose return value becomes the field.                  *)

(* a faulty TitleFieldOk: max_length left out of the Field *)
TitleFieldOk_without_max_length(v) == StrLen(v) >= TitleMinLength

(* Field(min_length=1, max_length=255) on title *)
TitleFieldOk(v) == StrLen(v) >= TitleMinLength /\ StrLen(v) <= TitleMaxLength

(* Field(max_length=10000) on description *)
DescriptionFieldOk(v) == StrLen(v) <= DescriptionMaxLength

(* a faulty title_not_empty: the validator returns v as sent *)
TaskCreate_title_not_empty_returns_v(v) ==
    IF ~Truthy(v) \/ ~Truthy(Strip(v))
    THEN [ok |-> FALSE, v |-> None]
    ELSE [ok |-> TRUE, v |-> v]

(* TaskCreate.title_not_empty: raises ValueError or returns v.strip() *)
TaskCreate_title_not_empty(v) ==
    IF ~Truthy(v) \/ ~Truthy(Strip(v))
    THEN [ok |-> FALSE, v |-> None]
    ELSE [ok |-> TRUE, v |-> Strip(v)]

(* TaskCreate.description_trimmed / TaskUpdate.description_trimmed *)
description_trimmed(v) == IF Truthy(v) THEN Strip(v) ELSE v

(* TaskUpdate.title_not_empty *)
TaskUpdate_title_not_empty(v) ==
    IF v # None /\ ~Truthy(Strip(v))
    THEN [ok |-> FALSE, v |-> None]
    ELSE [ok |-> TRUE, v |-> IF Truthy(v) THEN Strip(v) ELSE v]

Invalid == [ok |-> FALSE, title |-> None, description |-> None]

(* TaskCreate built from a body: title is required *)
TaskCreate(body) ==
    LET t == IF body.title = None \/ ~TitleFieldOk(body.title)
             THEN [ok |-> FALSE, v |-> None]
             ELSE TaskCreate_title_not_empty(body.title)
        dOk == body.description = None \/ DescriptionFieldOk(body.description)
    IN  IF t.ok /\ dOk
        THEN [ok |-> TRUE, title |-> t.v,
              description |-> IF body.description = None THEN None
                              ELSE description_trimmed(body.description)]
        ELSE Invalid

(* TaskUpdate built from a body: both fields optional, default None *)
TaskUpdate(body) ==
    LET t == IF body.title = None THEN [ok |-> TRUE, v |-> None]
             ELSE IF ~TitleFieldOk(body.title) THEN [ok |-> FALSE, v |-> None]
             ELSE TaskUpdate_title_not_empty(body.title)
        dOk == body.description = None \/ DescriptionFieldOk(body.description)
    IN  IF t.ok /\ dOk
        THEN [ok |-> TRUE, title |-> t.v,
              description |-> IF body.description = None THEN None
                              ELSE description_trimmed(body.description)]
        ELSE Invalid

---------------------------------------------------------------------------
(* db/models.py and services/task_service.py: the tasks table.             *)

Row(id, user_id, title, description, status, created_at, updated_at) ==
    [id |-> id, user_id |-> user_id, title |-> title,
     description |-> description, status |-> status,
     created_at |-> created_at, updated_at |-> updated_at]

Ids(tbl) == {r.id : r \in tbl}

MaxOf(ns) == IF ns = {} THEN 0 ELSE CHOOSE m \in ns : \A n \in ns : n <= m

(* Task.id, an integer primary key left to the database.  SQLite gives a   *)
(* rowid alias without AUTOINCREMENT: one more than the largest id in the  *)
(* table.  PostgreSQL gives a SERIAL column: the next value of a sequence. *)
AssignedId(tbl, seq, db) ==
    IF db = "sqlite" THEN MaxOf(Ids(tbl)) + 1 ELSE seq + 1

(* TaskService.create_task; created_at and updated_at are two calls of     *)
(* datetime.utcnow (the default_factory of each field).                    *)
TaskService_create_task(tbl, seq, db, user_id, task_data, t_created, t_updated) ==
    LET task == Row(AssignedId(tbl, seq, db), user_id, task_data.title,
                    task_data.description, "incomplete", t_created, t_updated)
    IN  [tasks |-> tbl \cup {task},
         task_seq |-> IF db = "sqlite" THEN seq ELSE seq + 1,
         task |-> task,
         result |-> task]

(* a faulty query: the status filter replaces the owner filter *)
UserTaskRows_status_replaces_owner(tbl, user_id, status) ==
    {r \in tbl : IF status # "" THEN r.status = status ELSE r.user_id = user_id}

(* a faulty query: no owner filter at all *)
UserTaskRows_of_all_owners(tbl, user_id, status) ==
    {r \in tbl : status # "" => r.status = status}

(* the rows selected by get_user_tasks: where(user_id) [where(status)] *)
UserTaskRows(tbl, user_id, status) ==
    {r \in tbl : r.user_id = user_id /\ (status # "" => r.status = status)}

(* every sequence that lists rows exactly once, newest created_at first;   *)
(* rows with equal created_at come in the order the database picks         *)
OrderedByCreatedDesc(rows) ==
    {q \in [1..Cardinality(rows) -> rows] :
        /\ \A i, j \in DOMAIN q : i # j => q[i] # q[j]
        /\ \A i, j \in DOMAIN q : i < j => q[i].created_at >= q[j].created_at}

(* TaskService.get_user_tasks: the lists session.exec(query).all() can give *)
TaskService_get_user_tasks(tbl, user_id, status) ==
    OrderedByCreatedDesc(UserTaskRows(tbl, user_id, status))

(* a faulty get_task: the lookup without the owner filter *)
TaskService_get_task_unscoped(tbl, task_id, user_id) ==
    IF \E r \in tbl : r.id = task_id
    THEN CHOOSE r \in tbl : r.id = task_id
    ELSE None

(* TaskService.get_task: where(Task.id == task_id, Task.user_id == user_id).first() *)
TaskService_get_task(tbl, task_id, user_id) ==
    IF \E r \in tbl : r.id = task_id /\ r.user_id = user_id
    THEN CHOOSE r \in tbl : r.id = task_id /\ r.user_id = user_id
    ELSE None

(* a faulty update_task: created_at is set along with updated_at *)
TaskService_update_task_resets_created_at(tbl, task_id, user_id, task_data, t) ==
    LET task == TaskService_get_task(tbl, task_id, user_id)
    IN  IF task = None
        THEN [tasks |-> tbl, task |-> task, result |-> None]
        ELSE LET upd == [task EXCEPT
                            !.title = IF task_data.title # None
                                      THEN task_data.title ELSE @,
                            !.description = IF task_data.description # None
                                            THEN task_data.description ELSE @,
                            !.created_at = t,
                            !.updated_at = t]
             IN  [tasks |-> (tbl \ {task}) \cup {upd}, task |-> task,
                  result |-> upd]

(* a faulty update_task: the description is written whether supplied or not *)
TaskService_update_task_overwrites_description(tbl, task_id, user_id, task_data, t) ==
    LET task == TaskService_get_task(tbl, task_id, user_id)
    IN  IF task = None
        THEN [tasks |-> tbl, task |-> task, result |-> None]
        ELSE LET upd == [task EXCEPT
                            !.title = IF task_data.title # None
                                      THEN task_data.title ELSE @,
                            !.description = task_data.description,
                            !.updated_at = t]
             IN  [tasks |-> (tbl \ {task}) \cup {upd}, task |-> task,
                  result |-> upd]

(* TaskService.update_task *)
TaskService_update_task(tbl, task_id, user_id, task_data, t) ==
    LET task == TaskService_get_task(tbl, task_id, user_id)
    IN  IF task = None
        THEN [tasks |-> tbl, task |-> task, result |-> None]
        ELSE LET upd == [task EXCEPT
                            !.title = IF task_data.title # None
                                      THEN task_data.title ELSE @,
                            !.description = IF task_data.description # None
                                            THEN task_data.description ELSE @,
                            !.updated_at = t]
             IN  [tasks |-> (tbl \ {task}) \cup {upd}, task |-> task,
                  result |-> upd]

(* a faulty delete_task: the row is looked up by id alone *)
TaskService_delete_task_by_id(tbl, task_id, user_id) ==
    LET task == IF \E r \in tbl : r.id = task_id
                THEN CHOOSE r \in tbl : r.id = task_id ELSE None
    IN  IF task = None
        THEN [tasks |-> tbl, task |-> task, result |-> FALSE]
        ELSE [tasks |-> tbl \ {task}, task |-> task, result |-> TRUE]

(* TaskService.delete_task *)
TaskService_delete_task(tbl, task_id, user_id) ==
    LET task == TaskService_get_task(tbl, task_id, user_id)
    IN  IF task = None
        THEN [tasks |-> tbl, task |-> task, result |-> FALSE]
        ELSE [tasks |-> tbl \ {task}, task |-> task, result |-> TRUE]

(* a faulty toggle_task_status: the status is set to "complete" whatever it was *)
TaskService_toggle_task_status_sets_complete(tbl, task_id, user_id, t) ==
    LET task == TaskService_get_task(tbl, task_id, user_id)
    IN  IF task = None
        THEN [tasks |-> tbl, task |-> task, result |-> None]
        ELSE LET upd == [task EXCEPT !.status = "complete", !.updated_at = t]
             IN  [tasks |-> (tbl \ {task}) \cup {upd}, task |-> task,
                  result |-> upd]

(* TaskService.toggle_task_status *)
TaskService_toggle_task_status(tbl, task_id, user_id, t) ==
    LET task == TaskService_get_task(tbl, task_id, user_id)
    IN  IF task = None
        THEN [tasks |-> tbl, task |-> task, result |-> None]
        ELSE LET upd == [task EXCEPT
                            !.status = IF @ = "incomplete"
                                       THEN "complete" ELSE "incomplete",
                            !.updated_at = t]
             IN  [tasks |-> (tbl \ {task}) \cup {upd}, task |-> task,
                  result |-> upd]

---------------------------------------------------------------------------
(* middleware/auth.py: the JWT gate.                                       *)
(* An Authorization header is [scheme, token]; scheme "" is no header.  A  *)
(* token is EmptyToken (the header "Bearer " with nothing after it) or a   *)
(* JWT [sig, sub, exp]: sig says whether it decodes and its HS256          *)
(* signature matches JWT_SECRET, sub is the "sub" claim ("" when absent),  *)
(* exp the "exp" claim.                                                    *)
EmptyToken == [empty |-> TRUE]

Jwt(sig, sub, exp) == [sig |-> sig, sub |-> sub, exp |-> exp]

Header(scheme, token) == [scheme |-> scheme, token |-> token]

(* extract_token *)
extract_token(request) ==
    IF request.header.scheme # "Bearer" THEN None ELSE request.header.token

(* a faulty verify_token: a token that came with a logout is refused *)
verify_token_after_logout(token, t) ==
    IF ~token.sig \/ token \in logged_out
    THEN [ok |-> FALSE, status_code |-> 401, detail |-> "Invalid token", sub |-> ""]
    ELSE IF token.exp <= t
    THEN [ok |-> FALSE, status_code |-> 401, detail |-> "Token has expired", sub |-> ""]
    ELSE [ok |-> TRUE, status_code |-> 200, detail |-> "", sub |-> token.sub]

(* verify_token: jwt.decode checks the signature, then exp against the clock *)
verify_token(token, t) ==
    IF ~token.sig
    THEN [ok |-> FALSE, status_code |-> 401, detail |-> "Invalid token", sub |-> ""]
    ELSE IF token.exp <= t
    THEN [ok |-> FALSE, status_code |-> 401, detail |-> "Token has expired", sub |-> ""]
    ELSE [ok |-> TRUE, status_code |-> 200, detail |-> "", sub |-> token.sub]

(* request.path_params as auth_middleware sees it.  The middleware is      *)
(* registered with @app.middleware("http") and so runs before the router   *)
(* has matched the path: the scope holds no path parameters yet, and       *)
(* .get("user_id") gives None, modelled as "".                             *)
middleware_path_params_user_id(request) == ""

(* a response: status code, the message ("detail" / "message"), the task   *)
(* returned ("data") or the list returned                                  *)
Response(status, detail, data, list) ==
    [status |-> status, detail |-> detail, data |-> data, list |-> list]

(* public_paths: the routes whose path starts with one of the public       *)
(* prefixes; the task routes are under /api and start with none            *)
public_paths == {"signup", "login", "logout", "health"}

(* auth_middleware up to call_next: either a response of its own or the    *)
(* request admitted with request.state.user_id set                         *)
auth_middleware(request, t) ==
    IF request.method = "OPTIONS"
    THEN [admit |-> FALSE, user_id |-> "", steps |-> <<>>,
          response |-> Response(200, "", None, <<>>)]
    ELSE IF request.route \in public_paths
    THEN [admit |-> TRUE, user_id |-> "", steps |-> <<"call_next">>,
          response |-> None]
    ELSE
    LET token == extract_token(request) IN
    IF token = None \/ token = EmptyToken
    THEN [admit |-> FALSE, user_id |-> "", steps |-> <<"extract_token">>,
          response |-> Response(401, "Missing authorization token", None, <<>>)]
    ELSE
    LET v == verify_token(token, t) IN
    IF ~v.ok
    THEN [admit |-> FALSE, user_id |-> "",
          steps |-> <<"extract_token", "verify_token">>,
          response |-> Response(v.status_code, v.detail, None, <<>>)]
    ELSE
    LET user_id == v.sub
        route_user_id == middleware_path_params_user_id(request)
    IN
    IF user_id = ""
    THEN [admit |-> FALSE, user_id |-> "",
          steps |-> <<"extract_token", "verify_token">>,
          response |-> Response(401, "Invalid token claims: missing user_id",
                                None, <<>>)]
    ELSE IF route_user_id # "" /\ route_user_id # user_id
    THEN [admit |-> FALSE, user_id |-> "",
          steps |-> <<"extract_token", "verify_token">>,
          response |-> Response(403, "Access denied: user_id mismatch",
                                None, <<>>)]
    ELSE [admit |-> TRUE, user_id |-> user_id,
          steps |-> <<"extract_token", "verify_token", "call_next">>,
          response |-> None]

---------------------------------------------------------------------------
(* api/routes/tasks.py.  A request is                                      *)
(*   [method, route, path_user, header, id, body, status]                  *)
(* route names the endpoint the path addresses, path_user is the           *)
(* {user_id} path segment, id the {id} segment as [ok, v] (ok: it parses   *)
(* as an int), body the JSON body, status the ?status= query ("": none).   *)

Outcome(response, tbl, seq, t, steps, user_id, service, held) ==
    [response |-> response, tasks |-> tbl, task_seq |-> seq, now |-> t,
     steps |-> steps, user_id |-> user_id, service |-> service, held |-> held]

HasId(route) == route \in {"get_task", "update_task", "delete_task", "toggle_task"}

(* FastAPI resolves a handler's parameters before it calls the handler:    *)
(* id: int, task_data: TaskCreate / TaskUpdate.  A parameter that does not *)
(* validate ends the request with 422 (RequestValidationError; main.py     *)
(* installs no handler for it).                                            *)
request_validation(request) ==
    LET idOk == HasId(request.route) => request.id.ok
        data == IF request.route = "create_task" THEN TaskCreate(request.body)
                ELSE IF request.route = "update_task" THEN TaskUpdate(request.body)
                ELSE [ok |-> TRUE, title |-> None, description |-> None]
    IN  [ok |-> idOk /\ data.ok, task_data |-> data]

(* a faulty handler: the check left out *)
user_id_mismatch_never(user_id, state_user_id) == FALSE

(* the check every handler starts with: user_id != request.state.user_id *)
user_id_mismatch(user_id, state_user_id) == user_id # state_user_id

Forbidden(tbl, seq, t, steps, state_user_id) ==
    Outcome(Response(403, "Access denied: user_id mismatch", None, <<>>),
            tbl, seq, t, steps \o <<"user_id_check">>, state_user_id, "", None)

NotFound(tbl, seq, t, steps, state_user_id, service, held) ==
    Outcome(Response(404, "Task not found", None, <<>>),
            tbl, seq, t, steps, state_user_id, service, held)

(* create_task (POST /api/users/{user_id}/tasks) *)
create_task(tbl, seq, db, t, t2, request, task_data, state_user_id, steps) ==
    IF user_id_mismatch(request.path_user, state_user_id)
    THEN Forbidden(tbl, seq, t, steps, state_user_id)
    ELSE LET r == TaskService_create_task(tbl, seq, db, request.path_user,
                                          task_data, t, t2)
         IN  Outcome(Response(201, "", r.result, <<>>), r.tasks, r.task_seq, t2,
                     steps \o <<"user_id_check", "TaskService.create_task">>,
                     state_user_id, "create_task", None)

(* list_tasks (GET /api/users/{user_id}/tasks); q is the list the query    *)
(* gave.  The handler's parameter `status` (the ?status= query, a str or   *)
(* None) hides fastapi's `status` module in the whole body, so             *)
(* status.HTTP_403_FORBIDDEN raises AttributeError; the raise stands       *)
(* before the try block and the request ends with 500.                     *)
list_tasks(tbl, seq, t, q, request, state_user_id, steps) ==
    IF user_id_mismatch(request.path_user, state_user_id)
    THEN Outcome(Response(500, "Internal Server Error", None, <<>>),
                 tbl, seq, t, steps \o <<"user_id_check">>, state_user_id, "", None)
    ELSE Outcome(Response(200, "", None, q), tbl, seq, t,
                 steps \o <<"user_id_check", "TaskService.get_user_tasks">>,
                 state_user_id, "get_user_tasks", None)

(* a faulty get_task: the row fetched by id alone, its owner checked after *)
get_task_checked_after_fetch(tbl, seq, t, request, state_user_id, steps) ==
    IF user_id_mismatch(request.path_user, state_user_id)
    THEN Forbidden(tbl, seq, t, steps, state_user_id)
    ELSE LET st == steps \o <<"user_id_check", "TaskService.get_task">> IN
         IF ~\E r \in tbl : r.id = request.id.v
         THEN NotFound(tbl, seq, t, st, state_user_id, "get_task", None)
         ELSE LET task == CHOOSE r \in tbl : r.id = request.id.v IN
              IF task.user_id # request.path_user
              THEN Outcome(Response(403, "Access denied", None, <<>>), tbl, seq, t,
                           st, state_user_id, "get_task", task)
              ELSE Outcome(Response(200, "", task, <<>>), tbl, seq, t, st,
                           state_user_id, "get_task", task)

(* get_task (GET /api/users/{user_id}/tasks/{id}) *)
get_task(tbl, seq, t, request, state_user_id, steps) ==
    IF user_id_mismatch(request.path_user, state_user_id)
    THEN Forbidden(tbl, seq, t, steps, state_user_id)
    ELSE LET task == TaskService_get_task(tbl, request.id.v, request.path_user)
             st == steps \o <<"user_id_check", "TaskService.get_task">>
         IN  IF task = None
             THEN NotFound(tbl, seq, t, st, state_user_id, "get_task", task)
             ELSE Outcome(Response(200, "", task, <<>>), tbl, seq, t, st,
                          state_user_id, "get_task", task)

(* update_task (PUT /api/users/{user_id}/tasks/{id}) *)
update_task(tbl, seq, t, request, task_data, state_user_id, steps) ==
    IF user_id_mismatch(request.path_user, state_user_id)
    THEN Forbidden(tbl, seq, t, steps, state_user_id)
    ELSE LET r == TaskService_update_task(tbl, request.id.v, request.path_user,
                                          task_data, t)
             st == steps \o <<"user_id_check", "TaskService.update_task">>
         IN  IF r.result = None
             THEN NotFound(r.tasks, seq, t, st, state_user_id, "update_task", r.task)
             ELSE Outcome(Response(200, "", r.result, <<>>), r.tasks, seq, t, st,
                          state_user_id, "update_task", r.task)

(* delete_task (DELETE /api/users/{user_id}/tasks/{id}) *)
delete_task(tbl, seq, t, request, state_user_id, steps) ==
    IF user_id_mismatch(request.path_user, state_user_id)
    THEN Forbidden(tbl, seq, t, steps, state_user_id)
    ELSE LET r == TaskService_delete_task(tbl, request.id.v, request.path_user)
             st == steps \o <<"user_id_check", "TaskService.delete_task">>
         IN  IF ~r.result
             THEN NotFound(r.tasks, seq, t, st, state_user_id, "delete_task", r.task)
             ELSE Outcome(Response(204, "", None, <<>>), r.tasks, seq, t, st,
                          state_user_id, "delete_task", r.task)

(* toggle_task (PATCH /api/users/{user_id}/tasks/{id}/complete) *)
toggle_task(tbl, seq, t, request, state_user_id, steps) ==
    IF user_id_mismatch(request.path_user, state_user_id)
    THEN Forbidden(tbl, seq, t, steps, state_user_id)
    ELSE LET r == TaskService_toggle_task_status(tbl, request.id.v,
                                                 request.path_user, t)
             st == steps \o <<"user_id_check", "TaskService.toggle_task_status">>
         IN  IF r.result = None
             THEN NotFound(r.tasks, seq, t, st, state_user_id, "toggle_task", r.task)
             ELSE Outcome(Response(200, "", r.result, <<>>), r.tasks, seq, t, st,
                          state_user_id, "toggle_task", r.task)

(* The application: auth_check (main.py) around the router.  t is the      *)
(* clock, nd the choices left open: nd.t2 the clock at create_task's       *)
(* second utcnow(), nd.q the list the database returns to list_tasks.      *)
App(tbl, seq, db, t, request, nd) ==
    LET g == auth_middleware(request, t) IN
    IF ~g.admit
    THEN Outcome(g.response, tbl, seq, t, g.steps, "", "", None)
    ELSE
    LET v == request_validation(request)
        st == g.steps \o <<"request_validation">>
    IN
    IF ~v.ok
    THEN Outcome(Response(422, "Unprocessable Entity", None, <<>>),
                 tbl, seq, t, st, g.user_id, "", None)
    ELSE CASE request.route = "create_task" ->
                create_task(tbl, seq, db, t, nd.t2, request, v.task_data, g.user_id, st)
           [] request.route = "list_tasks" ->
                list_tasks(tbl, seq, t, nd.q, request, g.user_id, st)
           [] request.route = "get_task" ->
                get_task(tbl, seq, t, request, g.user_id, st)
           [] request.route = "update_task" ->
                update_task(tbl, seq, t, request, v.task_data, g.user_id, st)
           [] request.route = "delete_task" ->
                delete_task(tbl, seq, t, request, g.user_id, st)
           [] request.route = "toggle_task" ->
                toggle_task(tbl, seq, t, request, g.user_id, st)

(* the choices open to a request in a state; ticking: the clock may move   *)
(* between the two utcnow() calls of a create                              *)
Choices(tbl, t, request, ticking) ==
    {[t2 |-> t2, q |-> q] :
        t2 \in IF request.route = "create_task" /\ ticking /\ t < MaxTime
               THEN {t, t + 1} ELSE {t},
        q \in IF request.route = "list_tasks"
              THEN TaskService_get_user_tasks(tbl, request.path_user, request.status)
              ELSE {<<>>}}

---------------------------------------------------------------------------
(* Phase 1: models/task.py and services/task_manager.py.                   *)

TmTask(id, title, description, status, created_at) ==
    [id |-> id, title |-> title, description |-> description,
     status |-> status, created_at |-> created_at]

(* Task.create *)
Task_create(title, description, auto_id, t) ==
    TmTask(auto_id, title, description, "incomplete", t)

(* a faulty add_task: the id taken from the length of the list *)
TaskManager_add_task_by_count(ts, next_id, title, description, t) ==
    LET task == Task_create(title, description, Len(ts) + 1, t)
    IN  [tasks |-> Append(ts, task), next_id |-> next_id + 1, result |-> task]

(* TaskManager.add_task *)
TaskManager_add_task(ts, next_id, title, description, t) ==
    LET task == Task_create(title, description, next_id, t)
    IN  [tasks |-> Append(ts, task), next_id |-> next_id + 1, result |-> task]

(* A Python list as a caller holds it: `object` names the list object      *)
(* ("_tasks": the list of the TaskManager itself), items are its items.    *)
ListObject(object, items) == [object |-> object, items |-> items]

(* a faulty list_tasks: `return self._tasks` *)
TaskManager_list_tasks_returns_the_list(ts) == ListObject("_tasks", ts)

(* TaskManager.list_tasks: list(self._tasks), a new list of the same items *)
TaskManager_list_tasks(ts) == ListObject("copy", ts)

(* TaskManager.get_task: the first task with the id, or None *)
TaskManager_get_task(ts, task_id) ==
    IF \E i \in DOMAIN ts : ts[i].id = task_id
    THEN ts[CHOOSE i \in DOMAIN ts :
                /\ ts[i].id = task_id
                /\ \A j \in DOMAIN ts : ts[j].id = task_id => i <= j]
    ELSE None

(* list.index(task): the first position holding a task equal to task *)
ListIndex(ts, task) ==
    CHOOSE i \in DOMAIN ts : ts[i] = task /\ \A j \in DOMAIN ts : ts[j] = task => i <= j

(* list.remove(task): the list without the first task equal to task *)
ListRemove(ts, task) ==
    LET idx == ListIndex(ts, task)
    IN  SubSeq(ts, 1, idx - 1) \o SubSeq(ts, idx + 1, Len(ts))

(* a faulty update_task: the rebuilt task put at the head of the list *)
TaskManager_update_task_replaces_first(ts, task_id, title, description) ==
    LET task == TaskManager_get_task(ts, task_id) IN
    IF task = None THEN [tasks |-> ts, result |-> FALSE]
    ELSE LET updated_task ==
                 TmTask(task.id,
                        IF title # None THEN title ELSE task.title,
                        IF description # None THEN description ELSE task.description,
                        task.status, task.created_at)
         IN  [tasks |-> [ts EXCEPT ![1] = updated_task], result |-> TRUE]

(* a faulty update_task: `title or task.title`, an empty string given is   *)
(* taken for no value                                                      *)
TaskManager_update_task_by_truthiness(ts, task_id, title, description) ==
    LET task == TaskManager_get_task(ts, task_id) IN
    IF task = None THEN [tasks |-> ts, result |-> FALSE]
    ELSE LET updated_task ==
                 TmTask(task.id,
                        IF title # None /\ title # Rep("a", 0)
                        THEN title ELSE task.title,
                        IF description # None /\ description # Rep("d", 0)
                        THEN description ELSE task.description,
                        task.status, task.created_at)
         IN  [tasks |-> [ts EXCEPT ![ListIndex(ts, task)] = updated_task],
              result |-> TRUE]

(* TaskManager.update_task *)
TaskManager_update_task(ts, task_id, title, description) ==
    LET task == TaskManager_get_task(ts, task_id) IN
    IF task = None THEN [tasks |-> ts, result |-> FALSE]
    ELSE LET updated_task ==
                 TmTask(task.id,
                        IF title # None THEN title ELSE task.title,
                        IF description # None THEN description ELSE task.description,
                        task.status, task.created_at)
         IN  [tasks |-> [ts EXCEPT ![ListIndex(ts, task)] = updated_task],
              result |-> TRUE]

(* TaskManager.delete_task *)
TaskManager_delete_task(ts, task_id) ==
    LET task == TaskManager_get_task(ts, task_id) IN
    IF task = None THEN [tasks |-> ts, result |-> FALSE]
    ELSE [tasks |-> ListRemove(ts, task), result |-> TRUE]

(* TaskManager.toggle_task_status *)
TaskManager_toggle_task_status(ts, task_id) ==
    LET task == TaskManager_get_task(ts, task_id) IN
    IF task = None THEN [tasks |-> ts, result |-> FALSE]
    ELSE LET new_status == IF task.status = "incomplete"
                           THEN "complete" ELSE "incomplete"
             updated_task == TmTask(task.id, task.title, task.description,
                                    new_status, task.created_at)
         IN  [tasks |-> [ts EXCEPT ![ListIndex(ts, task)] = updated_task],
              result |-> TRUE]

---------------------------------------------------------------------------
(* The requests of the model. *)
Pad(s) == Cat(Cat(Rep(" ", 1), s), Rep(" ", 1))

Titles ==
    {None, Rep("a", 0), Rep(" ", 2), Pad(Rep("a", 1)), Rep("a", TitleMaxLength),
     Cat(Rep(" ", 1), Rep("a", TitleMaxLength)), Rep("a", TitleMaxLength + 1)}

Descriptions ==
    {None, Pad(Rep("d", 1)), Rep("d", DescriptionMaxLength + 1)}

Body(title, description) == [title |-> title, description |-> description]

(* every title without a description, and every description with a good   *)
(* title and with no title                                                 *)
Bodies ==
    {Body(t, None) : t \in Titles}
    \cup {Body(t, d) : t \in {None, Pad(Rep("a", 1))}, d \in Descriptions}

GoodBody == Body(Pad(Rep("a", 1)), None)
BlankBody == Body(Rep(" ", 2), None)

Expiries == 1..(MaxTime + 1)

(* one token that does not verify, and the well-signed ones *)
Tokens ==
    {Jwt(FALSE, "u1", MaxTime + 1)}
    \cup {Jwt(TRUE, sub, exp) : sub \in {"u1", "u2", ""}, exp \in Expiries}

(* no header, a header of another scheme, "Bearer " alone, a bearer token *)
Headers ==
    {Header("", EmptyToken), Header("Basic", Jwt(TRUE, "u1", MaxTime + 1)),
     Header("Bearer", EmptyToken)}
    \cup {Header("Bearer", tok) : tok \in Tokens}

GoodHeader(u) == Header("Bearer", Jwt(TRUE, u, MaxTime + 1))

IntId(n) == [ok |-> TRUE, v |-> n]
BadId == [ok |-> FALSE, v |-> 0]
PathIds == {IntId(n) : n \in 1..(MaxId + 1)}

Statuses == {"", "incomplete", "complete", "archived"}

MethodOf(route) ==
    CASE route = "create_task" -> "POST"
      [] route = "list_tasks" -> "GET"
      [] route = "get_task" -> "GET"
      [] route = "update_task" -> "PUT"
      [] route = "delete_task" -> "DELETE"
      [] route = "toggle_task" -> "PATCH"

Request(method, route, path_user, header, id, body, status) ==
    [method |-> method, route |-> route, path_user |-> path_user,
     header |-> header, id |-> id, body |-> body, status |-> status]

Routes == {"create_task", "list_tasks", "get_task", "update_task", "delete_task",
           "toggle_task"}

HasBody(route) == route \in {"create_task", "update_task"}

(* requests that vary the credential: every header on every route, and a   *)
(* malformed id or body sent by the owner and by another user              *)
GateRequests(route) ==
    {Request(MethodOf(route), route, u, h, IntId(1), GoodBody, "") :
        u \in Users, h \in Headers}
    \cup
    {Request(MethodOf(route), route, u, GoodHeader(s), id, b, "") :
        u \in Users, s \in Users,
        id \in IF HasId(route) THEN {BadId} ELSE {IntId(1)},
        b \in IF HasBody(route) THEN {BlankBody} ELSE {GoodBody}}

(* the bodies TaskCreate, TaskUpdate accept *)
CreateBodies == {b \in Bodies : TaskCreate(b).ok}
UpdateBodies == {b \in Bodies : TaskUpdate(b).ok}
AcceptedBodies(route) == IF route = "create_task" THEN CreateBodies ELSE UpdateBodies

(* the users who send a route's requests in the payload family: the code   *)
(* treats user ids alike, so one user sends the updates and the toggles    *)
(* and the rows of the other stay as they were created                     *)
Senders(route) ==
    IF route \in {"update_task", "toggle_task"} THEN {"u1"} ELSE Users

(* requests that vary the payload, sent by the owner with an unexpired     *)
(* token: every id, every accepted body and every status filter; every     *)
(* refused body once (the schema is checked before the handler runs,       *)
(* whatever the user and the id); and each route asked for with the other  *)
(* user's token                                                            *)
PayloadRequests(route) ==
    {Request(MethodOf(route), route, u, GoodHeader(u), id, b, f) :
        u \in Senders(route),
        id \in IF HasId(route) THEN PathIds ELSE {IntId(1)},
        b \in IF HasBody(route) THEN AcceptedBodies(route) ELSE {GoodBody},
        f \in IF route = "list_tasks" THEN Statuses ELSE {""}}
    \cup
    {Request(MethodOf(route), route, "u1", GoodHeader("u1"), IntId(1), b, "") :
        b \in IF HasBody(route) THEN Bodies \ AcceptedBodies(route) ELSE {GoodBody}}
    \cup
    {Request(MethodOf(route), route, p[1], GoodHeader(p[2]), IntId(1), GoodBody, "") :
        p \in {<<"u1", "u2">>, <<"u2", "u1">>}}

EmptyBody == Body(None, None)

(* requests sent while the clock runs, by the owner with an unexpired      *)
(* token: every id and every status filter; a create with a title, an      *)
(* update with no field and an update with another title                   *)
ClockRequests(route) ==
    {Request(MethodOf(route), route, u, GoodHeader(u), id, b, f) :
        u \in Senders(route),
        id \in IF HasId(route) THEN PathIds ELSE {IntId(1)},
        b \in IF route = "update_task"
              THEN {EmptyBody, Body(Rep("a", TitleMaxLength), None)}
              ELSE {GoodBody},
        f \in IF route = "list_tasks" THEN Statuses ELSE {""}}

(* requests of both users, each with its own token, on every route, id and *)
(* status filter                                                           *)
BothUsersRequests(route) ==
    {Request(MethodOf(route), route, u, GoodHeader(u), id, b, f) :
        u \in Users,
        id \in IF HasId(route) THEN PathIds ELSE {IntId(1)},
        b \in IF route = "update_task"
              THEN {Body(Rep("a", TitleMaxLength), None)} ELSE {GoodBody},
        f \in IF route = "list_tasks" THEN Statuses ELSE {""}}

(* requests whose decisions by the gate are compared: on one path, a GET   *)
(* with a token that lasts, with one that expires at 1 and with no header, *)
(* an OPTIONS with no header; and a POST that adds a task                 *)
LogRequests(route) ==
    IF route = "create_task"
    THEN {Request("POST", route, "u1", GoodHeader("u1"), IntId(1), GoodBody, "")}
    ELSE {Request("GET", route, "u1", h, IntId(1), GoodBody, "") :
            h \in {GoodHeader("u1"), Header("Bearer", Jwt(TRUE, "u1", 1)),
                   Header("", EmptyToken)}}
         \cup
         {Request("OPTIONS", route, "u1", Header("", EmptyToken), IntId(1),
                  GoodBody, "")}

(* the requests of a family on a route *)
Requests(family, route) ==
    IF family = "log" THEN LogRequests(route) ELSE
    IF family = "gate" THEN GateRequests(route)
    ELSE IF family = "clock" THEN ClockRequests(route)
    ELSE IF family = "both" THEN BothUsersRequests(route)
    ELSE PayloadRequests(route)

PreflightRequests ==
    {Request("OPTIONS", route, u, h, IntId(1), GoodBody, "") :
        route \in Routes, u \in Users, h \in {Header("", EmptyToken), GoodHeader("u1")}}

---------------------------------------------------------------------------
(* Phase 2: the state machine.  A request is received and answered in one  *)
(* step, which leaves the request and its response in `last`; Deliver      *)
(* hands the response to the client and the server takes the next request. *)

NoLast == [idle |-> TRUE]

(* at: the clock when the request arrived *)
Last(request, o, at) ==
    [request |-> request, response |-> o.response, steps |-> o.steps,
     user_id |-> o.user_id, service |-> o.service, held |-> o.held, at |-> at]

(* the model holds no more than MaxRows rows and no id above MaxId *)
WithinBounds(tbl) ==
    Cardinality(tbl) <= MaxRows /\ \A r \in tbl : r.id <= MaxId

Handle(request, ticking) ==
    \E nd \in Choices(tasks, now, request, ticking) :
        LET o == App(tasks, task_seq, dialect, now, request, nd) IN
        /\ WithinBounds(o.tasks)
        /\ tasks' = o.tasks
        /\ max_issued' = IF o.service = "create_task" /\ o.response.data.id > max_issued
                         THEN o.response.data.id ELSE max_issued
        /\ task_seq' = o.task_seq
        /\ now' = o.now
        /\ last' = Last(request, o, now)
        /\ UNCHANGED <<dialect, p1vars, svars, evars>>

Req_create_task(family, ticking) ==
    /\ last = NoLast
    /\ \E request \in Requests(family, "create_task") : Handle(request, ticking)
Req_list_tasks(family) ==
    /\ last = NoLast
    /\ \E request \in Requests(family, "list_tasks") : Handle(request, FALSE)
Req_get_task(family) ==
    /\ last = NoLast
    /\ \E request \in Requests(family, "get_task") : Handle(request, FALSE)
Req_update_task(family) ==
    /\ last = NoLast
    /\ \E request \in Requests(family, "update_task") : Handle(request, FALSE)
Req_delete_task(family) ==
    /\ last = NoLast
    /\ \E request \in Requests(family, "delete_task") : Handle(request, FALSE)
Req_toggle_task(family) ==
    /\ last = NoLast
    /\ \E request \in Requests(family, "toggle_task") : Handle(request, FALSE)
Req_options == last = NoLast /\ \E request \in PreflightRequests : Handle(request, FALSE)

(* the response leaves the server *)
Deliver ==
    /\ last # NoLast
    /\ last' = NoLast
    /\ UNCHANGED <<tasks, max_issued, task_seq, dialect, now, p1vars, svars, evars>>

(* time passes *)
Tick ==
    /\ last = NoLast
    /\ now < MaxTime
    /\ now' = now + 1
    /\ UNCHANGED <<p2vars, p1vars, svars, evars>>

---------------------------------------------------------------------------
(* Phase 1: the state machine, one action per TaskManager method. *)

TmTitles == {Rep("a", 1), Rep("b", 1)}
TmDescriptions == {Rep("d", 0), Rep("d", 1)}
TmIds == 1..(MaxId + 1)

(* ok: whether the call returned a Task (add_task) or True; task: the Task *)
(* add_task returned                                                       *)
TmLast(op, id, ok, task) == [op |-> op, id |-> id, ok |-> ok, task |-> task]

Tm_add_task ==
    /\ tm_next_id <= MaxId
    /\ Len(tm_tasks) < MaxRows
    /\ \E title \in TmTitles, description \in TmDescriptions :
        LET r == TaskManager_add_task(tm_tasks, tm_next_id, title, description, now) IN
        /\ tm_tasks' = r.tasks
        /\ tm_next_id' = r.next_id
        /\ tm_adds' = tm_adds + 1
        /\ tm_last' = TmLast("add_task", r.result.id, TRUE, r.result)
    /\ UNCHANGED <<p2vars, now, svars, evars>>

Tm_update_task ==
    /\ \E task_id \in TmIds, title \in TmTitles \cup {None},
          description \in TmDescriptions \cup {None} :
        LET r == TaskManager_update_task(tm_tasks, task_id, title, description) IN
        /\ tm_tasks' = r.tasks
        /\ tm_last' = TmLast("update_task", task_id, r.result, None)
    /\ UNCHANGED <<p2vars, now, tm_next_id, tm_adds, svars, evars>>

Tm_delete_task ==
    /\ \E task_id \in TmIds :
        LET r == TaskManager_delete_task(tm_tasks, task_id) IN
        /\ tm_tasks' = r.tasks
        /\ tm_last' = TmLast("delete_task", task_id, r.result, None)
    /\ UNCHANGED <<p2vars, now, tm_next_id, tm_adds, svars, evars>>

Tm_toggle_task_status ==
    /\ \E task_id \in TmIds :
        LET r == TaskManager_toggle_task_status(tm_tasks, task_id) IN
        /\ tm_tasks' = r.tasks
        /\ tm_last' = TmLast("toggle_task_status", task_id, r.result, None)
    /\ UNCHANGED <<p2vars, now, tm_next_id, tm_adds, svars, evars>>

---------------------------------------------------------------------------
(* Phase 2: requests served by two server processes over one database.     *)
(* Each process serves one request at a time.  A request that the gate     *)
(* admits gets a session from get_session before its handler runs; the     *)
(* handler's service call is a lookup (SELECT) and, when a row was found,  *)
(* a write (UPDATE / DELETE, commit, refresh) in that session; the session *)
(* is closed when the dependency is finalised.  Nothing in the code locks  *)
(* the row between the lookup and the write.                               *)

Workers == {"w1", "w2"}

(* pc: idle, open (session obtained), held (row looked up), answered,      *)
(* released (get_session finalised), completed; open: the session is open; *)
(* exit: how the handler ended; base: the table when the request came      *)
IdleWorker ==
    [pc |-> "idle", request |-> None, user_id |-> "", held |-> None,
     response |-> None, open |-> FALSE, exit |-> "", base |-> {}]

(* a faulty get_session: session.close() placed after the yield, reached   *)
(* only when the handler returns                                           *)
get_session_closes_after_yield(exit) == exit # "return"

(* db/database.py get_session: `with Session(engine) as session: yield     *)
(* session`.  Whether the session is still open once the generator has     *)
(* been finalised after the handler ended the way `exit` says: the with    *)
(* block closes it on every way out.                                       *)
get_session_exit(exit) == FALSE

(* how the request left the handler: by return, by an HTTPException the    *)
(* handler raised, by another exception that escaped it (list_tasks), or   *)
(* by the RequestValidationError FastAPI raises in its place               *)
HandlerExit(response) ==
    IF response.status \in {200, 201, 204} THEN "return"
    ELSE IF response.status = 422 THEN "RequestValidationError"
    ELSE IF response = Response(500, "Internal Server Error", None, <<>>)
    THEN "Exception"
    ELSE "HTTPException"

WritingRoutes == {"update_task", "delete_task", "toggle_task"}

(* the requests the two processes serve.  "writes": the owner's toggle,    *)
(* update and delete of task 1.  "exits": one request for each way out of  *)
(* a request -- the owner's toggle of task 1 (return, or HTTPException 404 *)
(* when the table does not hold it), a toggle and a list with the other    *)
(* user's token (HTTPException 403; AttributeError), an update with a      *)
(* blank title (RequestValidationError) and a toggle without an            *)
(* Authorization header (refused by the gate: no session)                  *)
SessionRequests(kind) ==
    IF kind = "writes"
    THEN {Request(MethodOf(route), route, "u1", GoodHeader("u1"), IntId(1),
                  Body(Rep("a", TitleMaxLength), None), "") : route \in WritingRoutes}
    ELSE {Request("PATCH", "toggle_task", "u1", GoodHeader("u1"), IntId(1),
                  GoodBody, ""),
          Request("PATCH", "toggle_task", "u1", GoodHeader("u2"), IntId(1),
                  GoodBody, ""),
          Request("GET", "list_tasks", "u1", GoodHeader("u2"), IntId(1), GoodBody, ""),
          Request("PUT", "update_task", "u1", GoodHeader("u1"), IntId(1),
                  BlankBody, ""),
          Request("PATCH", "toggle_task", "u1", Header("", EmptyToken), IntId(1),
                  GoodBody, "")}

(* the write of a session that holds the row `held`: the ORM's UPDATE sets *)
(* the columns whose value the handler changed, WHERE id = held.id, and    *)
(* raises StaleDataError when no row matches (the handler turns it into    *)
(* 500); its DELETE only warns when no row matches.  The response carries  *)
(* the row as session.refresh reads it back.                               *)
SessionWrite(tbl, route, held, task_data, t) ==
    LET cur == IF \E r \in tbl : r.id = held.id
               THEN CHOOSE r \in tbl : r.id = held.id ELSE None
        Changed(new, old, kept) == IF new # old THEN new ELSE kept
    IN  IF route = "delete_task"
        THEN [tasks |-> {r \in tbl : r.id # held.id},
              response |-> Response(204, "", None, <<>>)]
        ELSE IF cur = None
        THEN [tasks |-> tbl,
              response |-> Response(500, IF route = "update_task"
                                         THEN "Error updating task"
                                         ELSE "Error toggling task status",
                                    None, <<>>)]
        ELSE LET upd ==
                   IF route = "toggle_task"
                   THEN [cur EXCEPT
                           !.status = IF held.status = "incomplete"
                                      THEN "complete" ELSE "incomplete",
                           !.updated_at = Changed(t, held.updated_at, @)]
                   ELSE [cur EXCEPT
                           !.title = IF task_data.title # None
                                     THEN Changed(task_data.title, held.title, @)
                                     ELSE @,
                           !.description =
                               IF task_data.description # None
                               THEN Changed(task_data.description, held.description, @)
                               ELSE @,
                           !.updated_at = Changed(t, held.updated_at, @)]
             IN  [tasks |-> (tbl \ {cur}) \cup {upd},
                  response |-> Response(200, "", upd, <<>>)]

AllIdle == \A w \in Workers : sessions[w].pc = "idle"

(* a request arrives at process w: the gate, then Depends(get_session) *)
Sv_begin(w, kind) ==
    /\ last = NoLast
    /\ sessions[w].pc = "idle"
    /\ \E request \in SessionRequests(kind) :
         LET g == auth_middleware(request, now) IN
         sessions' = [sessions EXCEPT ![w] =
            IF g.admit
            THEN [IdleWorker EXCEPT !.pc = "open", !.request = request,
                                    !.user_id = g.user_id, !.open = TRUE,
                                    !.base = tasks]
            ELSE [IdleWorker EXCEPT !.pc = "answered", !.request = request,
                                    !.response = g.response, !.base = tasks]]
    /\ UNCHANGED <<p2vars, now, p1vars, purged, evars>>

(* parameter validation, the handler's user_id check and the lookup *)
Sv_handle(w) ==
    /\ sessions[w].pc = "open"
    /\ LET request == sessions[w].request
           o == App(tasks, task_seq, dialect, now, request,
                    [t2 |-> now, q |-> <<>>])
       IN  sessions' = [sessions EXCEPT ![w] =
              IF request.route \in WritingRoutes /\ o.held # None
              THEN [@ EXCEPT !.pc = "held", !.held = o.held]
              ELSE [@ EXCEPT !.pc = "answered", !.response = o.response,
                             !.exit = HandlerExit(o.response)]]
    /\ UNCHANGED <<p2vars, now, p1vars, purged, evars>>

(* the write, the commit and the refresh *)
Sv_write(w) ==
    /\ sessions[w].pc = "held"
    /\ LET request == sessions[w].request
           r == SessionWrite(tasks, request.route, sessions[w].held,
                             request_validation(request).task_data, now)
       IN  /\ tasks' = r.tasks
           /\ sessions' = [sessions EXCEPT ![w] =
                  [@ EXCEPT !.pc = "answered", !.response = r.response,
                            !.exit = HandlerExit(r.response)]]
    /\ UNCHANGED <<max_issued, task_seq, dialect, last, now, p1vars, purged, evars>>

(* FastAPI finalises the get_session generator *)
Sv_release(w) ==
    /\ sessions[w].pc = "answered"
    /\ sessions[w].open
    /\ sessions' = [sessions EXCEPT ![w] =
           [@ EXCEPT !.pc = "released",
                     !.open = get_session_exit(sessions[w].exit)]]
    /\ UNCHANGED <<p2vars, now, p1vars, purged, evars>>

(* the request is over: the response has gone out *)
Sv_complete(w) ==
    /\ \/ sessions[w].pc = "released"
       \/ sessions[w].pc = "answered" /\ ~sessions[w].open
    /\ sessions' = [sessions EXCEPT ![w] = [@ EXCEPT !.pc = "completed"]]
    /\ UNCHANGED <<p2vars, now, p1vars, purged, evars>>

(* both processes take their next request *)
Sv_next ==
    /\ \A w \in Workers : sessions[w].pc = "completed"
    /\ sessions' = [w \in Workers |-> IdleWorker]
    /\ UNCHANGED <<p2vars, now, p1vars, purged, evars>>

---------------------------------------------------------------------------
(* Phase 2: beside the run, the run from which the requests of one user    *)
(* are left out.  `purged` holds its table and id sequence, the pairs      *)
(* <<id in the run, id in the purged run>> of the tasks of the other user  *)
(* (the same task, created by the same request, in both), and the response *)
(* the purged run gave to the request answered last.                       *)

Removed == "u1"     \* the user whose requests are left out
Observed == "u2"    \* the user whose responses are compared

NoPurgedRun == [tasks |-> {}, task_seq |-> 0, ids |-> {}, response |-> None]

(* the id a task of the run has in the purged run; 0, an id no table holds, *)
(* when it is not one of the observed user's tasks                          *)
PurgedId(ids, id) ==
    IF \E pair \in ids : pair[1] = id
    THEN (CHOOSE pair \in ids : pair[1] = id)[2]
    ELSE 0

InPurgedRun(ids, row) == [row EXCEPT !.id = PurgedId(ids, row.id)]

(* the request as the client sends it in the purged run: it names the task *)
(* by the id the task has there                                            *)
PurgedRequest(ids, request) ==
    IF HasId(request.route) /\ request.id.ok
    THEN [request EXCEPT !.id = IntId(PurgedId(ids, request.id.v))]
    ELSE request

(* the purged run answers the request of the observed user that the run    *)
(* answered with outcome o under the choices nd                            *)
PurgedStep(run, db, t, request, o, nd) ==
    LET lists == TaskService_get_user_tasks(run.tasks, request.path_user,
                                            request.status)
        same == [i \in DOMAIN nd.q |-> InPurgedRun(run.ids, nd.q[i])]
        q == IF request.route # "list_tasks" THEN <<>>
             ELSE IF same \in lists THEN same
             ELSE CHOOSE l \in lists : TRUE
        po == App(run.tasks, run.task_seq, db, t,
                  PurgedRequest(run.ids, request), [t2 |-> nd.t2, q |-> q])
        created == IF o.service = "create_task" /\ po.service = "create_task"
                   THEN {<<o.response.data.id, po.response.data.id>>}
                   ELSE {}
    IN  [tasks |-> po.tasks,
         task_seq |-> po.task_seq,
         ids |-> {pair \in run.ids \cup created :
                     /\ \E r \in o.tasks : r.id = pair[1] /\ r.user_id = Observed
                     /\ \E r \in po.tasks : r.id = pair[2]},
         response |-> po.response]

(* a request is answered; the purged run answers it too unless it comes    *)
(* from the user left out                                                  *)
Pg_request(route) ==
    /\ last = NoLast
    /\ \E request \in Requests("both", route) :
         \E nd \in Choices(tasks, now, request, FALSE) :
            LET o == App(tasks, task_seq, dialect, now, request, nd) IN
            /\ WithinBounds(o.tasks)
            /\ tasks' = o.tasks
            /\ max_issued' = IF o.service = "create_task"
                                /\ o.response.data.id > max_issued
                             THEN o.response.data.id ELSE max_issued
            /\ task_seq' = o.task_seq
            /\ now' = o.now
            /\ last' = Last(request, o, now)
            /\ purged' = IF request.header.token.sub = Removed
                         THEN [purged EXCEPT !.response = None]
                         ELSE PurgedStep(purged, dialect, now, request, o, nd)
    /\ UNCHANGED <<dialect, p1vars, sessions, evars>>

---------------------------------------------------------------------------
(* api/routes/auth.py over the users table of db/models.py.  A User row is *)
(* [id, email, password_hash]; its two timestamps are left out.            *)

Emails == {"a@x", "b@x"}
Passwords == {"pw1", "pw2"}

UserRow(id, email, password_hash) ==
    [id |-> id, email |-> email, password_hash |-> password_hash]

(* bcrypt: the hash is told apart by the password it was made from *)
hash_password(password) == [bcrypt |-> password]
verify_password(plain_password, hashed_password) ==
    hashed_password = [bcrypt |-> plain_password]

(* the body of a signup or login request *)
Credentials(email, password) == [email |-> email, password |-> password]

(* select(User).where(User.email == email) ... .first() *)
UserByEmail(utbl, email) ==
    IF \E r \in utbl : r.email = email
    THEN CHOOSE r \in utbl : r.email = email ELSE None

(* session.add(user); session.commit(): the INSERT fails with an           *)
(* IntegrityError when the table holds the primary key or, User.email      *)
(* being unique, the email                                                 *)
UsersInsert(utbl, user) ==
    IF \E r \in utbl : r.id = user.id \/ r.email = user.email
    THEN [ok |-> FALSE, users |-> utbl]
    ELSE [ok |-> TRUE, users |-> utbl \cup {user}]

(* timedelta(days=7): the clock counts days where tokens are issued *)
TokenDays == 7

(* a faulty create_jwt_token: timedelta(days=30) *)
create_jwt_token_expires_in_a_month(user_id, t) == Jwt(TRUE, user_id, t + 30)

(* create_jwt_token *)
create_jwt_token(user_id, t) == Jwt(TRUE, user_id, t + TokenDays)

(* what signup and login return *)
UserAndToken(user, token) ==
    [user |-> [id |-> user.id, email |-> user.email], token |-> token]

(* signup, its SELECT *)
signup_select(utbl, req) == UserByEmail(utbl, req.email)

(* signup from the row its SELECT gave: utbl is the table at the commit,   *)
(* user_id the value of uuid.uuid4().  No except clause is around the      *)
(* commit: an IntegrityError leaves the handler and the client gets        *)
(* FastAPI's 500.                                                          *)
signup_commit(existing_user, utbl, req, user_id, t) ==
    IF existing_user # None
    THEN [users |-> utbl,
          response |-> Response(400, "Email already registered", None, <<>>)]
    ELSE LET user == UserRow(user_id, req.email, hash_password(req.password))
             ins == UsersInsert(utbl, user)
         IN  IF ~ins.ok
             THEN [users |-> utbl,
                   response |-> Response(500, "Internal Server Error", None, <<>>)]
             ELSE [users |-> ins.users,
                   response |-> Response(200, "",
                                         UserAndToken(user, create_jwt_token(user_id, t)),
                                         <<>>)]

(* signup served by one process from beginning to end *)
signup(utbl, req, user_id, t) ==
    signup_commit(signup_select(utbl, req), utbl, req, user_id, t)

(* login *)
login(utbl, req, t) ==
    LET user == UserByEmail(utbl, req.email) IN
    IF user = None
    THEN Response(401, "Invalid email or password", None, <<>>)
    ELSE IF ~verify_password(req.password, user.password_hash)
    THEN Response(401, "Invalid email or password", None, <<>>)
    ELSE Response(200, "", UserAndToken(user, create_jwt_token(user.id, t)), <<>>)

(* logout: nothing is read and nothing is kept *)
logout == Response(200, "Logged out successfully", None, <<>>)

(* a request to an /auth route *)
AuthRequest(route, header, body) ==
    Request("POST", route, "", header, IntId(0), body, "")

(* uuid.uuid4(): an id no row has *)
UserIds == Users \cup {"u3"}
FreshUserIds(utbl) == UserIds \ {r.id : r \in utbl}

(* the requests to the /auth routes: a signup and a login for every email  *)
(* and password, a logout with a token and without                         *)
AuthRequests(route) ==
    IF route = "logout"
    THEN {AuthRequest(route, h, None) : h \in {GoodHeader("u1"), Header("", EmptyToken)}}
    ELSE {AuthRequest(route, Header("", EmptyToken), Credentials(email, password)) :
            email \in Emails, password \in Passwords}

(* the gate and the handler of an /auth route, served by one process *)
AuthApp(utbl, t, request, user_id) ==
    LET g == auth_middleware(request, t) IN
    IF ~g.admit
    THEN [users |-> utbl, response |-> g.response, steps |-> g.steps]
    ELSE CASE request.route = "signup" ->
                LET r == signup(utbl, request.body, user_id, t) IN
                [users |-> r.users, response |-> r.response, steps |-> g.steps]
           [] request.route = "login" ->
                [users |-> utbl, response |-> login(utbl, request.body, t),
                 steps |-> g.steps]
           [] request.route = "logout" ->
                [users |-> utbl, response |-> logout, steps |-> g.steps]

(* the user and the token of a signup's or login's response, and when it   *)
(* was given                                                               *)
Issued(data, at) == [user |-> data.user, token |-> data.token, at |-> at]

(* a request to an /auth route is received and answered; the model notes   *)
(* the token a signup or login issued and the token a logout came with     *)
Au_request(route) ==
    /\ last = NoLast
    /\ \E request \in AuthRequests(route),
          user_id \in IF route = "signup" THEN FreshUserIds(users) ELSE {""} :
         LET o == AuthApp(users, now, request, user_id)
             token == extract_token(request)
         IN  /\ users' = o.users
             /\ issued' = IF route # "logout" /\ o.response.status = 200
                          THEN Issued(o.response.data, now) ELSE issued
             /\ logged_out' = IF route = "logout" /\ token \notin {None, EmptyToken}
                              THEN logged_out \cup {token} ELSE logged_out
             /\ last' = Last(request,
                             Outcome(o.response, tasks, task_seq, now, o.steps,
                                     "", "", None),
                             now)
    /\ UNCHANGED <<tasks, max_issued, task_seq, dialect, now, p1vars, svars, gate_log,
                   ovars>>

(* what the gate decided for the request answered last: whether it let the *)
(* request through and, if not, the status it answered; after_logout:      *)
(* whether the request's token had come with a logout by then              *)
GateDecision(l) ==
    LET admit == \E i \in DOMAIN l.steps : l.steps[i] = "call_next" IN
    [method |-> l.request.method, header |-> l.request.header,
     route |-> l.request.route, path_user |-> l.request.path_user, at |-> l.at,
     after_logout |-> l.request.header.token \in logged_out,
     admit |-> admit, status |-> IF admit THEN 0 ELSE l.response.status]

(* the response leaves the server and the gate's decision is noted *)
Gl_deliver ==
    /\ last # NoLast
    /\ last' = NoLast
    /\ gate_log' = gate_log \cup {GateDecision(last)}
    /\ UNCHANGED <<tasks, max_issued, task_seq, dialect, now, p1vars, svars, users,
                   issued, logged_out, ovars>>

(* a request to a task route with the token issued last, on the path of    *)
(* any user                                                                *)
Tk_request(route) ==
    /\ last = NoLast
    /\ issued # None
    /\ \E path_user \in UserIds :
          Handle(Request(MethodOf(route), route, path_user,
                         Header("Bearer", issued.token), IntId(1), GoodBody, ""),
                 FALSE)

(* a day passes *)
Tk_day ==
    /\ last = NoLast
    /\ now < MaxDays
    /\ now' = now + 1
    /\ UNCHANGED <<p2vars, p1vars, svars, evars>>

(* time passes.  The decisions noted so far are dropped: they are compared *)
(* with decisions taken at the same time, and that time does not come back *)
Gl_tick ==
    /\ last = NoLast
    /\ now < MaxTime
    /\ now' = now + 1
    /\ gate_log' = {}
    /\ UNCHANGED <<p2vars, p1vars, svars, users, issued, logged_out, ovars>>

(* Two server processes serve signups.  The steps of a process: the gate   *)
(* and Depends(get_session), the SELECT, the INSERT with its commit.       *)
Su_begin(w) ==
    /\ last = NoLast
    /\ sessions[w].pc = "idle"
    /\ \E email \in Emails, password \in Passwords :
         LET request == AuthRequest("signup", Header("", EmptyToken),
                                    Credentials(email, password))
             g == auth_middleware(request, now)
         IN  /\ g.admit
             /\ sessions' = [sessions EXCEPT ![w] =
                    [IdleWorker EXCEPT !.pc = "open", !.request = request,
                                       !.open = TRUE]]
    /\ UNCHANGED <<p2vars, now, p1vars, purged, evars>>

Su_select(w) ==
    /\ sessions[w].pc = "open"
    /\ sessions[w].request.route = "signup"
    /\ LET existing_user == signup_select(users, sessions[w].request.body) IN
       sessions' = [sessions EXCEPT ![w] =
          IF existing_user # None
          THEN LET r == signup_commit(existing_user, users, sessions[w].request.body,
                                      "", now)
               IN  [@ EXCEPT !.pc = "answered", !.response = r.response,
                             !.exit = HandlerExit(r.response)]
          ELSE [@ EXCEPT !.pc = "held"]]
    /\ UNCHANGED <<p2vars, now, p1vars, purged, evars>>

Su_commit(w) ==
    /\ sessions[w].pc = "held"
    /\ sessions[w].request.route = "signup"
    /\ \E user_id \in FreshUserIds(users) :
         LET r == signup_commit(None, users, sessions[w].request.body, user_id, now) IN
         /\ users' = r.users
         /\ sessions' = [sessions EXCEPT ![w] =
                [@ EXCEPT !.pc = "answered", !.response = r.response,
                          !.exit = HandlerExit(r.response)]]
    /\ UNCHANGED <<p2vars, now, p1vars, purged, issued, gate_log, logged_out, ovars>>

---------------------------------------------------------------------------
(* Phase 1: cli/commands.py.  args is [id, title, description]: id is an   *)
(* int or a str, IntId(n) when it is n or parses as n and BadId when int() *)
(* refuses it; title and description are a str or None.  A command returns *)
(* the TaskManager it leaves and the line it prints.                       *)

CliArgs(id, title, description) ==
    [id |-> id, title |-> title, description |-> description]

CliResult(ts, next_id, out) == [tasks |-> ts, next_id |-> next_id, out |-> out]

(* the lines that report a refusal *)
CliErrors ==
    {"Error: Title is required", "Error: Invalid ID format", "Error: Task ID not found",
     "Error: Title cannot be empty",
     "Error: At least one of --title or --description must be provided",
     "Error: Could not update task", "Error: Could not delete task",
     "Error: Could not complete task", "Error: Could not mark task incomplete"}

(* a faulty add_command: the title is checked after the task was added *)
add_command_checks_after_add(ts, next_id, args, t) ==
    LET title == args.title
        description == IF Truthy(args.description) THEN args.description ELSE Rep("d", 0)
        r == TaskManager_add_task(ts, next_id, title, description, t)
    IN  IF ~Truthy(title) \/ ~Truthy(Strip(title))
        THEN CliResult(r.tasks, r.next_id, "Error: Title is required")
        ELSE CliResult(r.tasks, r.next_id, "Task added")

(* add_command *)
add_command(ts, next_id, args, t) ==
    LET title == args.title
        description == IF Truthy(args.description) THEN args.description ELSE Rep("d", 0)
    IN  IF ~Truthy(title) \/ ~Truthy(Strip(title))
        THEN CliResult(ts, next_id, "Error: Title is required")
        ELSE LET r == TaskManager_add_task(ts, next_id, title, description, t)
             IN  CliResult(r.tasks, r.next_id, "Task added")

(* update_command *)
update_command(ts, next_id, args) ==
    LET task_id == args.id.v
        title == args.title
        description == args.description
    IN  IF ~args.id.ok
        THEN CliResult(ts, next_id, "Error: Invalid ID format")
        ELSE IF TaskManager_get_task(ts, task_id) = None
        THEN CliResult(ts, next_id, "Error: Task ID not found")
        ELSE IF title # None /\ ~Truthy(Strip(title))
        THEN CliResult(ts, next_id, "Error: Title cannot be empty")
        ELSE IF title = None /\ description = None
        THEN CliResult(ts, next_id,
                       "Error: At least one of --title or --description must be provided")
        ELSE LET r == TaskManager_update_task(ts, task_id, title, description)
             IN  CliResult(r.tasks, next_id,
                           IF r.result THEN "Task updated"
                           ELSE "Error: Could not update task")

(* delete_command *)
delete_command(ts, next_id, args) ==
    LET task_id == args.id.v IN
    IF ~args.id.ok
    THEN CliResult(ts, next_id, "Error: Invalid ID format")
    ELSE IF TaskManager_get_task(ts, task_id) = None
    THEN CliResult(ts, next_id, "Error: Task ID not found")
    ELSE LET r == TaskManager_delete_task(ts, task_id)
         IN  CliResult(r.tasks, next_id,
                       IF r.result THEN "Task deleted"
                       ELSE "Error: Could not delete task")

(* complete_command *)
complete_command(ts, next_id, args) ==
    LET task_id == args.id.v IN
    IF ~args.id.ok
    THEN CliResult(ts, next_id, "Error: Invalid ID format")
    ELSE IF TaskManager_get_task(ts, task_id) = None
    THEN CliResult(ts, next_id, "Error: Task ID not found")
    ELSE LET r == TaskManager_toggle_task_status(ts, task_id)
         IN  CliResult(r.tasks, next_id,
                       IF r.result THEN "Task marked complete"
                       ELSE "Error: Could not complete task")

(* incomplete_command *)
incomplete_command(ts, next_id, args) ==
    LET task_id == args.id.v IN
    IF ~args.id.ok
    THEN CliResult(ts, next_id, "Error: Invalid ID format")
    ELSE IF TaskManager_get_task(ts, task_id) = None
    THEN CliResult(ts, next_id, "Error: Task ID not found")
    ELSE LET r == TaskManager_toggle_task_status(ts, task_id)
         IN  CliResult(r.tasks, next_id,
                       IF r.result THEN "Task marked incomplete"
                       ELSE "Error: Could not mark task incomplete")

(* the arguments of the model: every id of the store, one past them and    *)
(* one that is no integer; a title, an empty one, a blank one and none     *)
CliIds == {IntId(n) : n \in TmIds} \cup {BadId}
CliTitles == {Rep("a", 1), Rep("a", 0), Rep(" ", 2), None}
CliDescriptions == {Rep("d", 1), None}

(* the command run last, its arguments and the line it printed *)
CliLast(op, args, out) ==
    [op |-> op, id |-> args.id.v, ok |-> out \notin CliErrors, task |-> None,
     args |-> args, out |-> out]

CliOps == {"add_command", "update_command", "delete_command", "complete_command",
           "incomplete_command"}

Cli_add ==
    /\ tm_next_id <= MaxId
    /\ Len(tm_tasks) < MaxRows
    /\ \E title \in CliTitles, description \in CliDescriptions :
         LET args == CliArgs(IntId(0), title, description)
             r == add_command(tm_tasks, tm_next_id, args, now)
         IN  /\ tm_tasks' = r.tasks
             /\ tm_next_id' = r.next_id
             /\ tm_adds' = IF r.next_id # tm_next_id THEN tm_adds + 1 ELSE tm_adds
             /\ tm_last' = CliLast("add_command", args, r.out)
    /\ UNCHANGED <<p2vars, now, svars, evars>>

Cli_update ==
    /\ \E id \in CliIds, title \in CliTitles, description \in CliDescriptions :
         LET args == CliArgs(id, title, description)
             r == update_command(tm_tasks, tm_next_id, args)
         IN  /\ tm_tasks' = r.tasks
             /\ tm_next_id' = r.next_id
             /\ tm_last' = CliLast("update_command", args, r.out)
    /\ UNCHANGED <<p2vars, now, tm_adds, svars, evars>>

Cli_delete ==
    /\ \E id \in CliIds :
         LET args == CliArgs(id, None, None)
             r == delete_command(tm_tasks, tm_next_id, args)
         IN  /\ tm_tasks' = r.tasks
             /\ tm_next_id' = r.next_id
             /\ tm_last' = CliLast("delete_command", args, r.out)
    /\ UNCHANGED <<p2vars, now, tm_adds, svars, evars>>

Cli_complete ==
    /\ \E id \in CliIds :
         LET args == CliArgs(id, None, None)
             r == complete_command(tm_tasks, tm_next_id, args)
         IN  /\ tm_tasks' = r.tasks
             /\ tm_next_id' = r.next_id
             /\ tm_last' = CliLast("complete_command", args, r.out)
    /\ UNCHANGED <<p2vars, now, tm_adds, svars, evars>>

Cli_incomplete ==
    /\ \E id \in CliIds :
         LET args == CliArgs(id, None, None)
             r == incomplete_command(tm_tasks, tm_next_id, args)
         IN  /\ tm_tasks' = r.tasks
             /\ tm_next_id' = r.next_id
             /\ tm_last' = CliLast("incomplete_command", args, r.out)
    /\ UNCHANGED <<p2vars, now, tm_adds, svars, evars>>

---------------------------------------------------------------------------
(* Phase 1: a caller of TaskManager.list_tasks.  It may change the list it *)
(* got -- append a task of its own, or clear the list -- right after it    *)
(* got it, and then lets go of it.  A change to a list object changes      *)
(* _tasks when the object is _tasks.                                       *)

Tm_list_tasks ==
    /\ tm_listed = None
    /\ tm_listed' = TaskManager_list_tasks(tm_tasks)
    /\ tm_last' = TmLast("list_tasks", 0, TRUE, None)
    /\ UNCHANGED <<p2vars, now, tm_tasks, tm_next_id, tm_adds, svars, avars, orchestrator>>

Tm_change_listed ==
    /\ tm_listed # None
    /\ tm_last.op = "list_tasks"
    /\ \E items \in {<<>>, Append(tm_listed.items, Task_create(Rep("f", 1), Rep("d", 0),
                                                               999, now))} :
         /\ tm_listed' = [tm_listed EXCEPT !.items = items]
         /\ tm_tasks' = IF tm_listed.object = "_tasks" THEN items ELSE tm_tasks
    /\ tm_last' = TmLast("caller_changes_list", 0, TRUE, None)
    /\ UNCHANGED <<p2vars, now, tm_next_id, tm_adds, svars, avars, orchestrator>>

Tm_drop_listed ==
    /\ tm_listed # None
    /\ tm_listed' = None
    /\ UNCHANGED <<p2vars, now, p1vars, svars, avars, orchestrator>>

---------------------------------------------------------------------------
(* Phase 1: agents/ and skills/.  AgentContext.user_input is a str, held   *)
(* as the sequence of its units: a word (standing for its letters), a      *)
(* digit, a blank or "|"; None is a user_input that is no str.             *)
(* task_manager is TheTaskManager, the one TaskManager of the program, or  *)
(* None.                                                                   *)

Text(units) == [units |-> units]

TheTaskManager == [object |-> "TaskManager"]

(* the str of a sequence of units *)
RECURSIVE Pack(_)
Pack(units) ==
    IF units = <<>> THEN <<>>
    ELSE LET rest == Pack(Tail(units)) IN
         IF rest # <<>> /\ rest[1][1] = Head(units)
         THEN << <<Head(units), rest[1][2] + 1>> >> \o Tail(rest)
         ELSE << <<Head(units), 1>> >> \o rest

Str(units) == S(Pack(units))

(* str.lower() of a unit *)
Lower(unit) ==
    CASE unit = "Delete" -> "delete"
      [] unit = "TOGGLE" -> "toggle"
      [] OTHER -> unit

(* str.strip() *)
StripUnits(units) ==
    LET kept == {i \in DOMAIN units : ~IsSpace(units[i])} IN
    IF kept = {} THEN <<>>
    ELSE SubSeq(units, CHOOSE i \in kept : \A j \in kept : i <= j,
                       CHOOSE i \in kept : \A j \in kept : j <= i)

DigitUnits == <<"0", "1", "2", "3", "4", "5", "6", "7", "8", "9">>
IsDigit(unit) == \E i \in DOMAIN DigitUnits : DigitUnits[i] = unit
DigitValue(unit) == (CHOOSE i \in DOMAIN DigitUnits : DigitUnits[i] = unit) - 1

RECURSIVE Decimal(_)
Decimal(units) ==
    IF units = <<>> THEN 0
    ELSE 10 * Decimal(SubSeq(units, 1, Len(units) - 1)) + DigitValue(units[Len(units)])

(* int(s.strip()): ok is FALSE where int raises ValueError *)
ParseInt(units) ==
    LET s == StripUnits(units) IN
    IF s # <<>> /\ \A i \in DOMAIN s : IsDigit(s[i])
    THEN [ok |-> TRUE, v |-> Decimal(s)]
    ELSE [ok |-> FALSE, v |-> 0]

FirstBar(units) ==
    CHOOSE i \in DOMAIN units : units[i] = "|" /\ \A j \in 1..(i - 1) : units[j] # "|"

HasBar(units) == \E i \in DOMAIN units : units[i] = "|"

(* s.split("|", 1) *)
SplitOnce(units) ==
    IF ~HasBar(units) THEN <<units>>
    ELSE <<SubSeq(units, 1, FirstBar(units) - 1),
           SubSeq(units, FirstBar(units) + 1, Len(units))>>

(* s.split("|") *)
RECURSIVE Split(_)
Split(units) ==
    IF ~HasBar(units) THEN <<units>>
    ELSE <<SubSeq(units, 1, FirstBar(units) - 1)>>
         \o Split(SubSeq(units, FirstBar(units) + 1, Len(units)))

(* the dict a skill or an agent returns; the id a message names is in data *)
Result(success, message, data) ==
    [success |-> success, message |-> message, data |-> data]

Failure(message) == Result(FALSE, message, None)

(* the TaskManager a call leaves, and what the call returned *)
SkillOutcome(ts, next_id, result) ==
    [tasks |-> ts, next_id |-> next_id, result |-> result]

(* Skill.validate, the same in every skill *)
Skill_validate(task_manager) == task_manager # None

NotAvailable == Failure("Invalid context: task_manager not available")

(* CreateTaskSkill.execute *)
CreateTaskSkill_execute(task_manager, ts, next_id, user_input, t) ==
    IF ~Skill_validate(task_manager) THEN SkillOutcome(ts, next_id, NotAvailable)
    ELSE IF user_input = None
    THEN SkillOutcome(ts, next_id, Failure("Failed to create task"))
    ELSE
    LET parts == SplitOnce(user_input.units)
        title == StripUnits(parts[1])
        description == IF Len(parts) > 1 THEN StripUnits(parts[2]) ELSE <<>>
    IN  IF title = <<>>
        THEN SkillOutcome(ts, next_id, Failure("Error: Title is required"))
        ELSE LET r == TaskManager_add_task(ts, next_id, Str(title), Str(description), t)
             IN  SkillOutcome(r.tasks, r.next_id,
                              Result(TRUE, "Task created successfully", r.result))

(* ListTasksSkill.execute, no status_filter in the metadata *)
ListTasksSkill_execute(task_manager, ts, next_id, user_input, t) ==
    IF ~Skill_validate(task_manager) THEN SkillOutcome(ts, next_id, NotAvailable)
    ELSE SkillOutcome(ts, next_id,
                      Result(TRUE, "Retrieved tasks",
                             [tasks |-> TaskManager_list_tasks(ts).items]))

(* DeleteTaskSkill.execute *)
DeleteTaskSkill_execute(task_manager, ts, next_id, user_input, t) ==
    IF ~Skill_validate(task_manager) THEN SkillOutcome(ts, next_id, NotAvailable)
    ELSE IF user_input = None
    THEN SkillOutcome(ts, next_id, Failure("Failed to delete task"))
    ELSE
    LET task_id == ParseInt(user_input.units) IN
    IF ~task_id.ok THEN SkillOutcome(ts, next_id, Failure("Invalid task ID format"))
    ELSE LET r == TaskManager_delete_task(ts, task_id.v) IN
         IF r.result
         THEN SkillOutcome(r.tasks, next_id,
                           Result(TRUE, "Task deleted successfully",
                                  [task_id |-> task_id.v]))
         ELSE SkillOutcome(r.tasks, next_id, Failure("Task not found"))

(* ToggleTaskStatusSkill.execute *)
ToggleTaskStatusSkill_execute(task_manager, ts, next_id, user_input, t) ==
    IF ~Skill_validate(task_manager) THEN SkillOutcome(ts, next_id, NotAvailable)
    ELSE IF user_input = None
    THEN SkillOutcome(ts, next_id, Failure("Failed to toggle status"))
    ELSE
    LET task_id == ParseInt(user_input.units) IN
    IF ~task_id.ok THEN SkillOutcome(ts, next_id, Failure("Invalid task ID format"))
    ELSE LET r == TaskManager_toggle_task_status(ts, task_id.v) IN
         IF r.result
         THEN SkillOutcome(r.tasks, next_id,
                           Result(TRUE, "Task status toggled",
                                  TaskManager_get_task(r.tasks, task_id.v)))
         ELSE SkillOutcome(r.tasks, next_id, Failure("Task not found"))

(* UpdateTaskSkill.execute *)
UpdateTaskSkill_execute(task_manager, ts, next_id, user_input, t) ==
    IF ~Skill_validate(task_manager) THEN SkillOutcome(ts, next_id, NotAvailable)
    ELSE IF user_input = None
    THEN SkillOutcome(ts, next_id, Failure("Failed to update task"))
    ELSE
    LET parts == Split(user_input.units) IN
    IF Len(parts) < 2
    THEN SkillOutcome(ts, next_id,
                      Failure("Invalid format. Use: task_id|title|description"))
    ELSE
    LET task_id == ParseInt(parts[1])
        title == IF StripUnits(parts[2]) # <<>> THEN Str(StripUnits(parts[2])) ELSE None
        description == IF Len(parts) > 2 /\ StripUnits(parts[3]) # <<>>
                       THEN Str(StripUnits(parts[3])) ELSE None
    IN
    IF ~task_id.ok THEN SkillOutcome(ts, next_id, Failure("Invalid task ID format"))
    ELSE LET r == TaskManager_update_task(ts, task_id.v, title, description) IN
         IF r.result
         THEN SkillOutcome(r.tasks, next_id,
                           Result(TRUE, "Task updated successfully",
                                  TaskManager_get_task(r.tasks, task_id.v)))
         ELSE SkillOutcome(r.tasks, next_id, Failure("Task not found"))

(* ComputeMetricsSkill.execute: total_tasks and completed_tasks *)
ComputeMetricsSkill_execute(task_manager, ts, next_id, user_input, t) ==
    IF ~Skill_validate(task_manager) THEN SkillOutcome(ts, next_id, NotAvailable)
    ELSE LET listed == TaskManager_list_tasks(ts).items IN
         SkillOutcome(ts, next_id,
                      Result(TRUE, "Metrics computed successfully",
                             [total_tasks |-> Len(listed),
                              completed_tasks |->
                                  Len(SelectSeq(listed,
                                                LAMBDA task : task.status = "complete"))]))

(* `word in user_input_lower` for a word of words *)
HasWord(user_input, words) ==
    \E i \in DOMAIN user_input.units : Lower(user_input.units[i]) \in words

(* TaskManagementAgent._parse_intent *)
TaskManagementAgent_parse_intent(user_input) ==
    IF HasWord(user_input, {"add", "create", "new"}) THEN "create"
    ELSE IF HasWord(user_input, {"get", "show", "list"}) THEN "retrieve"
    ELSE IF HasWord(user_input, {"delete", "remove"}) THEN "delete"
    ELSE IF HasWord(user_input, {"update", "edit", "change"}) THEN "update"
    ELSE IF HasWord(user_input, {"complete", "toggle", "mark"}) THEN "toggle"
    ELSE "unknown"

(* a faulty TaskManagementAgent.execute: the skill gets the input without  *)
(* the words that named the intent                                         *)
TaskManagementAgent_execute_passes_the_rest(task_manager, ts, next_id, user_input, t) ==
    IF user_input = None
    THEN SkillOutcome(ts, next_id, Failure("Error in TaskManagementAgent"))
    ELSE
    LET intent == TaskManagementAgent_parse_intent(user_input)
        words == {"add", "create", "new", "get", "show", "list", "delete", "remove",
                  "update", "edit", "change", "complete", "toggle", "mark"}
        rest == Text(SelectSeq(user_input.units,
                               LAMBDA unit : Lower(unit) \notin words))
    IN  CASE intent = "create" ->
                CreateTaskSkill_execute(task_manager, ts, next_id, rest, t)
          [] intent = "retrieve" ->
                ListTasksSkill_execute(task_manager, ts, next_id, rest, t)
          [] intent = "delete" ->
                DeleteTaskSkill_execute(task_manager, ts, next_id, rest, t)
          [] intent = "update" ->
                UpdateTaskSkill_execute(task_manager, ts, next_id, rest, t)
          [] intent = "toggle" ->
                ToggleTaskStatusSkill_execute(task_manager, ts, next_id, rest, t)
          [] OTHER -> SkillOutcome(ts, next_id, Failure("Unknown operation"))

(* TaskManagementAgent.execute with the skills AgentFactory registers; a   *)
(* user_input that is no str raises in _parse_intent and is caught         *)
TaskManagementAgent_execute(task_manager, ts, next_id, user_input, t) ==
    IF user_input = None
    THEN SkillOutcome(ts, next_id, Failure("Error in TaskManagementAgent"))
    ELSE
    LET intent == TaskManagementAgent_parse_intent(user_input) IN
    CASE intent = "create" ->
            CreateTaskSkill_execute(task_manager, ts, next_id, user_input, t)
      [] intent = "retrieve" ->
            ListTasksSkill_execute(task_manager, ts, next_id, user_input, t)
      [] intent = "delete" ->
            DeleteTaskSkill_execute(task_manager, ts, next_id, user_input, t)
      [] intent = "update" ->
            UpdateTaskSkill_execute(task_manager, ts, next_id, user_input, t)
      [] intent = "toggle" ->
            ToggleTaskStatusSkill_execute(task_manager, ts, next_id, user_input, t)
      [] OTHER -> SkillOutcome(ts, next_id, Failure("Unknown operation"))

(* AnalyticsAgent.execute *)
AnalyticsAgent_execute(task_manager, ts, next_id, user_input, t) ==
    IF user_input = None
    THEN SkillOutcome(ts, next_id, Failure("Error in AnalyticsAgent"))
    ELSE IF HasWord(user_input, {"metric", "analytics", "stats", "report", "summary"})
    THEN ComputeMetricsSkill_execute(task_manager, ts, next_id, user_input, t)
    ELSE SkillOutcome(ts, next_id, Failure("Unknown analytics operation"))

(* the registry AgentFactory.create_agent_system builds *)
RegisteredAgents == {"TaskManagementAgent", "AnalyticsAgent"}
RegisteredSkills ==
    {"create_task", "list_tasks", "delete_task", "toggle_task_status", "update_task",
     "compute_metrics"}

(* agent.execute(context) of the agent registered under agent_name *)
Agent_execute(agent_name, task_manager, ts, next_id, user_input, t) ==
    IF agent_name = "TaskManagementAgent"
    THEN TaskManagementAgent_execute(task_manager, ts, next_id, user_input, t)
    ELSE AnalyticsAgent_execute(task_manager, ts, next_id, user_input, t)

(* skill.execute(context) of the skill registered under skill_name *)
Skill_execute(skill_name, task_manager, ts, next_id, user_input, t) ==
    CASE skill_name = "create_task" ->
            CreateTaskSkill_execute(task_manager, ts, next_id, user_input, t)
      [] skill_name = "list_tasks" ->
            ListTasksSkill_execute(task_manager, ts, next_id, user_input, t)
      [] skill_name = "delete_task" ->
            DeleteTaskSkill_execute(task_manager, ts, next_id, user_input, t)
      [] skill_name = "toggle_task_status" ->
            ToggleTaskStatusSkill_execute(task_manager, ts, next_id, user_input, t)
      [] skill_name = "update_task" ->
            UpdateTaskSkill_execute(task_manager, ts, next_id, user_input, t)
      [] skill_name = "compute_metrics" ->
            ComputeMetricsSkill_execute(task_manager, ts, next_id, user_input, t)

(* AgentOrchestrator.__init__ *)
AgentOrchestrator(task_manager) ==
    [task_manager |-> task_manager, execution_history |-> <<>>]

(* the orchestrator and the TaskManager a call leaves, and what it returned *)
OrchOutcome(o, ts, next_id, result) ==
    [orchestrator |-> o, tasks |-> ts, next_id |-> next_id, result |-> result]

AgentEntry(agent_name, user_input, result) ==
    [agent |-> agent_name, user_input |-> user_input, result |-> result]
SkillEntry(skill_name, user_input, result) ==
    [skill |-> skill_name, user_input |-> user_input, result |-> result]

(* a faulty execute_agent: only a successful execution is recorded *)
AgentOrchestrator_execute_agent_records_successes(o, ts, next_id, agent_name, user_input, t) ==
    IF agent_name \notin RegisteredAgents
    THEN OrchOutcome(o, ts, next_id, Failure("Agent not found"))
    ELSE LET r == Agent_execute(agent_name, o.task_manager, ts, next_id, user_input, t)
         IN  OrchOutcome(IF r.result.success
                         THEN [o EXCEPT !.execution_history =
                                   Append(@, AgentEntry(agent_name, user_input, r.result))]
                         ELSE o,
                         r.tasks, r.next_id, r.result)

(* AgentOrchestrator.execute_agent *)
AgentOrchestrator_execute_agent(o, ts, next_id, agent_name, user_input, t) ==
    IF agent_name \notin RegisteredAgents
    THEN OrchOutcome(o, ts, next_id, Failure("Agent not found"))
    ELSE LET r == Agent_execute(agent_name, o.task_manager, ts, next_id, user_input, t)
         IN  OrchOutcome([o EXCEPT !.execution_history =
                              Append(@, AgentEntry(agent_name, user_input, r.result))],
                         r.tasks, r.next_id, r.result)

(* AgentOrchestrator.execute_skill *)
AgentOrchestrator_execute_skill(o, ts, next_id, skill_name, user_input, t) ==
    IF skill_name \notin RegisteredSkills
    THEN OrchOutcome(o, ts, next_id, Failure("Skill not found"))
    ELSE IF ~Skill_validate(o.task_manager)
    THEN OrchOutcome(o, ts, next_id, Failure("Skill validation failed"))
    ELSE LET r == Skill_execute(skill_name, o.task_manager, ts, next_id, user_input, t)
         IN  OrchOutcome([o EXCEPT !.execution_history =
                              Append(@, SkillEntry(skill_name, user_input, r.result))],
                         r.tasks, r.next_id, r.result)

(* AgentOrchestrator.clear_history *)
AgentOrchestrator_clear_history(o) == [o EXCEPT !.execution_history = <<>>]

(* the calls of the model: "add" makes a task, "1" names one; a name the   *)
(* registry holds not                                                      *)
OrchInputs == {Text(<<"add">>), Text(<<"1">>)}
OrchAgentNames == RegisteredAgents \cup {"NonexistentAgent"}
OrchSkillNames == {"create_task", "toggle_task_status", "nonexistent_skill"}

(* the orchestrator call made last, and whether it reported success *)
OrchLast(op, result) == TmLast(op, 0, result.success, None)

(* AgentOrchestrator(registry, task_manager) is constructed *)
Orch_init ==
    /\ orchestrator = None
    /\ \E task_manager \in {TheTaskManager, None} :
         orchestrator' = AgentOrchestrator(task_manager)
    /\ UNCHANGED <<p2vars, now, p1vars, svars, avars, tm_listed>>

OrchStep(op, r) ==
    /\ Len(r.orchestrator.execution_history) <= MaxHistory
    /\ Len(r.tasks) <= MaxRows
    /\ r.next_id <= MaxId + 1
    /\ orchestrator' = r.orchestrator
    /\ tm_tasks' = r.tasks
    /\ tm_next_id' = r.next_id
    /\ tm_adds' = IF r.next_id # tm_next_id THEN tm_adds + 1 ELSE tm_adds
    /\ tm_last' = OrchLast(op, r.result)
    /\ UNCHANGED <<p2vars, now, svars, avars, tm_listed>>

Orch_execute_agent ==
    /\ orchestrator # None
    /\ \E agent_name \in OrchAgentNames, user_input \in OrchInputs :
         OrchStep("execute_agent",
                  AgentOrchestrator_execute_agent(orchestrator, tm_tasks, tm_next_id,
                                                  agent_name, user_input, now))

Orch_execute_skill ==
    /\ orchestrator # None
    /\ \E skill_name \in OrchSkillNames, user_input \in OrchInputs :
         OrchStep("execute_skill",
                  AgentOrchestrator_execute_skill(orchestrator, tm_tasks, tm_next_id,
                                                  skill_name, user_input, now))

Orch_clear_history ==
    /\ orchestrator # None
    /\ orchestrator.execution_history # <<>>
    /\ orchestrator' = AgentOrchestrator_clear_history(orchestrator)
    /\ tm_last' = OrchLast("clear_history", Result(TRUE, "", None))
    /\ UNCHANGED <<p2vars, now, tm_tasks, tm_next_id, tm_adds, svars, avars, tm_listed>>

(* what is said to the TaskManagementAgent: a word of every intent, two of *)
(* them with capitals, a digit, a blank and "|", in every order            *)
AgentUnits == {"add", "list", "Delete", "update", "TOGGLE", "1", " ", "|"}

AgentInputs == {Text(units) : units \in UNION {[1..n -> AgentUnits] : n \in 0..MaxInput}}

(* what the agent is told in the runs of the model: to add a task, to      *)
(* delete, update and toggle task 1, and a bare id                         *)
AgentSays ==
    {Text(<<"add">>), Text(<<"Delete", " ", "1">>), Text(<<"1", "|", "update">>),
     Text(<<"TOGGLE", " ", "1">>), Text(<<"1">>)}

(* the execution made last: the intent found and the message returned *)
AgLast(user_input, result) ==
    [op |-> "TaskManagementAgent.execute", id |-> 0, ok |-> result.success,
     task |-> None, intent |-> TaskManagementAgent_parse_intent(user_input),
     message |-> result.message]

(* TaskManagementAgent.execute is called *)
Ag_execute ==
    /\ \E user_input \in AgentSays :
         LET r == TaskManagementAgent_execute(TheTaskManager, tm_tasks, tm_next_id,
                                              user_input, now)
         IN  /\ Len(r.tasks) <= MaxRows
             /\ r.next_id <= MaxId + 1
             /\ tm_tasks' = r.tasks
             /\ tm_next_id' = r.next_id
             /\ tm_adds' = IF r.next_id # tm_next_id THEN tm_adds + 1 ELSE tm_adds
             /\ tm_last' = AgLast(user_input, r.result)
    /\ UNCHANGED <<p2vars, now, svars, evars>>

Init ==
    /\ tasks = {}
    /\ max_issued = 0
    /\ task_seq = 0
    /\ dialect \in {"sqlite", "postgresql"}
    /\ now = 0
    /\ last = NoLast
    /\ tm_tasks = <<>>
    /\ tm_next_id = 1
    /\ tm_adds = 0
    /\ tm_last = TmLast("", 0, FALSE, None)
    /\ sessions = [w \in Workers |-> IdleWorker]
    /\ purged = NoPurgedRun
    /\ users = {}
    /\ issued = None
    /\ gate_log = {}
    /\ logged_out = {}
    /\ tm_listed = None
    /\ orchestrator = None

(* the service under requests that vary ids and payloads *)
Next ==
    \/ Req_create_task("payload", FALSE)
    \/ Req_list_tasks("payload")
    \/ Req_get_task("payload")
    \/ Req_update_task("payload")
    \/ Req_delete_task("payload")
    \/ Req_toggle_task("payload")
    \/ Deliver

Spec == Init /\ [][Next]_vars

(* the gate under requests that vary the credential, with the clock running *)
NextGate ==
    \/ Req_create_task("gate", TRUE)
    \/ Req_list_tasks("gate")
    \/ Req_get_task("gate")
    \/ Req_update_task("gate")
    \/ Req_delete_task("gate")
    \/ Req_toggle_task("gate")
    \/ Req_options
    \/ Tick
    \/ Deliver

SpecGate == Init /\ [][NextGate]_vars

(* the service under the owners' requests, with the clock running *)
NextClock ==
    \/ Req_create_task("clock", TRUE)
    \/ Req_list_tasks("clock")
    \/ Req_update_task("clock")
    \/ Req_delete_task("clock")
    \/ Req_toggle_task("clock")
    \/ Tick
    \/ Deliver

SpecClock == Init /\ [][NextClock]_vars

(* two server processes under the owner's writes to one task; tasks are    *)
(* created while neither process serves a request                          *)
NextSessions ==
    \/ AllIdle /\ Req_create_task("clock", FALSE)
    \/ Deliver
    \/ \E w \in Workers : Sv_begin(w, "writes")
    \/ \E w \in Workers : Sv_handle(w)
    \/ \E w \in Workers : Sv_write(w)
    \/ \E w \in Workers : Sv_release(w)
    \/ \E w \in Workers : Sv_complete(w)
    \/ Sv_next

SpecSessions == Init /\ [][NextSessions]_vars

(* two server processes under requests that leave the handler in every way *)
NextExits ==
    \/ AllIdle /\ Req_create_task("clock", FALSE)
    \/ Deliver
    \/ \E w \in Workers : Sv_begin(w, "exits")
    \/ \E w \in Workers : Sv_handle(w)
    \/ \E w \in Workers : Sv_write(w)
    \/ \E w \in Workers : Sv_release(w)
    \/ \E w \in Workers : Sv_complete(w)
    \/ Sv_next

(* what the server guarantees of a request under way: the handler runs,    *)
(* FastAPI finalises its dependencies, the response goes out               *)
Sv_serve(w) == Sv_handle(w) \/ Sv_write(w) \/ Sv_release(w) \/ Sv_complete(w)

SpecExits ==
    Init /\ [][NextExits]_vars /\ \A w \in Workers : WF_vars(Sv_serve(w))

(* the service under the requests of two users, beside the run without    *)
(* the requests of one of them                                             *)
NextPurged ==
    \/ Pg_request("create_task")
    \/ Pg_request("list_tasks")
    \/ Pg_request("get_task")
    \/ Pg_request("update_task")
    \/ Pg_request("delete_task")
    \/ Pg_request("toggle_task")
    \/ Deliver

SpecPurged == Init /\ [][NextPurged]_vars

(* the in-memory TaskManager *)
NextTM ==
    \/ Tm_add_task
    \/ Tm_update_task
    \/ Tm_delete_task
    \/ Tm_toggle_task_status
    \/ Tick

SpecTM == Init /\ [][NextTM]_vars

(* The two applications are separate programs: a run is a run of the       *)
(* phase-2 service or a run of the phase-1 TaskManager, never of both.     *)
Phase1Unused == tm_tasks = <<>> /\ tm_next_id = 1 /\ tm_adds = 0 /\ tm_last.op = ""
Phase2Unused == tasks = {} /\ max_issued = 0 /\ task_seq = 0 /\ last = NoLast

NextApps ==
    \/ Phase1Unused /\ Req_create_task("payload", FALSE)
    \/ Phase1Unused /\ Req_list_tasks("payload")
    \/ Phase1Unused /\ Req_get_task("payload")
    \/ Phase1Unused /\ Req_update_task("payload")
    \/ Phase1Unused /\ Req_delete_task("payload")
    \/ Phase1Unused /\ Req_toggle_task("payload")
    \/ Phase1Unused /\ Deliver
    \/ Phase2Unused /\ Tm_add_task
    \/ Phase2Unused /\ Tm_update_task
    \/ Phase2Unused /\ Tm_delete_task
    \/ Phase2Unused /\ Tm_toggle_task_status

SpecApps == Init /\ [][NextApps]_vars

(* two server processes under signups *)
NextSignup ==
    \/ \E w \in Workers : Su_begin(w)
    \/ \E w \in Workers : Su_select(w)
    \/ \E w \in Workers : Su_commit(w)
    \/ \E w \in Workers : Sv_release(w)
    \/ \E w \in Workers : Sv_complete(w)
    \/ Sv_next

(* the TaskManager and a caller that lists its tasks *)
NextList ==
    \/ tm_listed = None /\ Tm_add_task
    \/ tm_listed = None /\ Tm_update_task
    \/ tm_listed = None /\ Tm_delete_task
    \/ tm_listed = None /\ Tm_toggle_task_status
    \/ Tm_list_tasks
    \/ Tm_change_listed
    \/ Tm_drop_listed

SpecList == Init /\ [][NextList]_vars

(* the commands of the CLI over one TaskManager *)
NextCli ==
    \/ Cli_add
    \/ Cli_update
    \/ Cli_delete
    \/ Cli_complete
    \/ Cli_incomplete

SpecCli == Init /\ [][NextCli]_vars

SpecSignup == Init /\ [][NextSignup]_vars

(* the gate under requests that come again, before and after a logout *)
NextGateLog ==
    \/ Req_list_tasks("log")
    \/ Req_create_task("log", FALSE)
    \/ Au_request("logout")
    \/ Gl_deliver
    \/ Gl_tick

SpecGateLog == Init /\ [][NextGateLog]_vars

(* signups and logins over MaxDays days, and requests with the token       *)
(* issued last                                                             *)
NextToken ==
    \/ Au_request("signup")
    \/ Au_request("login")
    \/ Tk_request("list_tasks")
    \/ Tk_request("get_task")
    \/ Tk_request("update_task")
    \/ Deliver
    \/ Tk_day

SpecToken == Init /\ [][NextToken]_vars

(* the orchestrator over one TaskManager *)
NextOrch ==
    \/ Orch_init
    \/ Orch_execute_agent
    \/ Orch_execute_skill
    \/ Orch_clear_history

SpecOrch == Init /\ [][NextOrch]_vars

(* the TaskManagementAgent over a TaskManager whose tasks are also toggled *)
(* from the command line                                                   *)
NextAgent ==
    \/ Ag_execute
    \/ Tm_toggle_task_status

SpecAgent == Init /\ [][NextAgent]_vars

---------------------------------------------------------------------------
(* Properties. *)

Answered == last # NoLast

(* the request in `last` was sent with an unexpired, well-signed token of  *)
(* the user its path names                                                 *)
ByOwner(l) == l.request.header = GoodHeader(l.request.path_user)

(* C1: whatever create/update/toggle/delete requests came before, neither  *)
(* get_user_tasks(u2, any status filter) nor get_task(id, u2) gives a row  *)
(* of another owner -- for every argument on every reachable table, and in *)
(* every response a list or get request was given.                         *)
C1_ReadsNeverCrossOwners ==
    /\ \A u2 \in Users, f \in Statuses :
         \A q \in TaskService_get_user_tasks(tasks, u2, f) :
            \A i \in DOMAIN q : q[i].user_id = u2
    /\ \A u2 \in Users, id \in 1..(MaxId + 1) :
         LET r == TaskService_get_task(tasks, id, u2)
         IN  r # None => r.user_id = u2
    /\ Answered =>
         /\ \A i \in DOMAIN last.response.list :
               last.response.list[i].user_id = last.request.path_user
         /\ last.response.data # None =>
               last.response.data.user_id = last.request.path_user

(* a list request with a status filter returned rows of its owner while    *)
(* the table held a row of the other user with the same status             *)
C1_Witness ==
    /\ Answered
    /\ last.request.route = "list_tasks"
    /\ last.request.status # ""
    /\ last.response.status = 200
    /\ last.response.list # <<>>
    /\ \E r \in tasks : r.user_id # last.request.path_user
                        /\ r.status = last.request.status

(* C2: update_task, delete_task and toggle_task_status called for a task   *)
(* id whose row belongs to another user return None / False (the handler   *)
(* answers 404), leave the whole table as it was, and the row their lookup *)
(* holds is None.                                                          *)
C2_ForeignWriteHasNoEffect ==
    [][(/\ last' # NoLast
        /\ last'.service \in {"update_task", "delete_task", "toggle_task"}
        /\ \E r \in tasks : r.id = last'.request.id.v
                            /\ r.user_id # last'.request.path_user)
       => (/\ tasks' = tasks
           /\ last'.held = None
           /\ last'.response.status = 404)]_vars

(* an update with a valid body aimed at the other user's row was answered *)
C2_Witness ==
    /\ Answered
    /\ last.service = "update_task"
    /\ last.request.body = GoodBody
    /\ last.response.status = 404
    /\ \E r \in tasks : r.id = last.request.id.v /\ r.user_id # last.request.path_user

(* the answer the application gives to request, over table tbl *)
Answers(tbl, request) ==
    {App(tbl, task_seq, dialect, now, request, nd).response :
        nd \in Choices(tbl, now, request, FALSE)}

(* every request B can send for its own path on a route, with a good token *)
OwnerRequests(B, route) ==
    {Request(MethodOf(route), route, B, GoodHeader(B), id, b, "") :
        id \in PathIds \cup {BadId},
        b \in IF HasBody(route) THEN Bodies ELSE {GoodBody}}

Answering == last = NoLast /\ last' # NoLast

(* the bearer token of the answered request verifies at the time it came *)
TokenValid(l) ==
    /\ l.request.header.scheme = "Bearer"
    /\ l.request.header.token # EmptyToken
    /\ l.request.header.token.sig
    /\ l.request.header.token.exp > l.at
    /\ l.request.header.token.sub # ""

(* C4: a non-OPTIONS request to a task endpoint is answered 401 when it    *)
(* carries no bearer token, 401 when the token has a bad signature, is     *)
(* expired or has no "sub", 403 when the token is valid and its subject    *)
(* is not the path user_id, and is admitted with request.state.user_id     *)
(* set to the subject when the subject is the path user_id.                *)
C4_GateStatusMapping ==
    (Answered /\ last.request.method # "OPTIONS") =>
        LET h == last.request.header
            bearer == h.scheme = "Bearer" /\ h.token # EmptyToken
        IN  /\ ~bearer => last.response.status = 401
            /\ (bearer /\ ~TokenValid(last)) => last.response.status = 401
            /\ (TokenValid(last) /\ h.token.sub # last.request.path_user)
                  => last.response.status = 403
            /\ (TokenValid(last) /\ h.token.sub = last.request.path_user)
                  => (/\ last.user_id = h.token.sub
                      /\ \E i \in DOMAIN last.steps : last.steps[i] = "call_next")

(* the position of step x in the steps of a request, 0 when it is not there *)
StepIndex(steps, x) ==
    IF \E i \in DOMAIN steps : steps[i] = x
    THEN CHOOSE i \in DOMAIN steps : steps[i] = x
    ELSE 0

(* C5: a request reaches a TaskService operation only after verify_token   *)
(* accepted its token and the user_id check found the subject equal to the *)
(* path user_id; a request answered 401 or 403 calls no TaskService        *)
(* operation, leaves the table and the id sequence as they were, and gets  *)
(* the response it would get over any other table.                         *)
C5_ServiceOnlyBehindGate ==
    [][Answering =>
        /\ last'.service # "" =>
             /\ TokenValid(last')
             /\ last'.request.header.token.sub = last'.request.path_user
             /\ last'.user_id = last'.request.path_user
             /\ 0 < StepIndex(last'.steps, "verify_token")
             /\ StepIndex(last'.steps, "verify_token")
                   < StepIndex(last'.steps, "user_id_check")
             /\ StepIndex(last'.steps, "user_id_check") = Len(last'.steps) - 1
        /\ last'.response.status \in {401, 403} =>
             /\ last'.service = ""
             /\ last'.held = None
             /\ tasks' = tasks
             /\ task_seq' = task_seq
             /\ \A tbl \in SUBSET tasks :
                  App(tbl, task_seq, dialect, now, last'.request,
                      [t2 |-> now, q |-> <<>>]).response = last'.response]_vars

(* a DELETE with the token of another user was answered 403 while the row  *)
(* it names exists under the path user                                     *)
C5_Witness ==
    /\ Answered
    /\ last.request.route = "delete_task"
    /\ last.response.status = 403
    /\ \E r \in tasks : r.id = last.request.id.v /\ r.user_id = last.request.path_user

(* C6: the id create_task assigns is above every id assigned before (so    *)
(* ids are unique, increase in creation order and the id of a deleted row  *)
(* never comes back, the highest one included).                            *)
C6_IdsIncreaseAndAreNeverReused ==
    [][(Answering /\ last'.service = "create_task") =>
          /\ last'.response.data.id > max_issued
          /\ \A r \in tasks : r.id < last'.response.data.id]_vars

(* C7: the k-th add_task returns id k whatever other calls came between;   *)
(* the ids in the list are pairwise distinct, and none of them is above    *)
(* the number of add_task calls.                                           *)
C7_KthAddReturnsIdK ==
    /\ tm_last.op = "add_task" => tm_last.task.id = tm_adds
    /\ tm_next_id = tm_adds + 1
    /\ \A i, j \in DOMAIN tm_tasks : tm_tasks[i].id = tm_tasks[j].id => i = j
    /\ \A i \in DOMAIN tm_tasks : tm_tasks[i].id \in 1..tm_adds

(* the second add_task came after the first task was deleted *)
C7_Witness ==
    /\ tm_last.op = "add_task"
    /\ tm_adds = 2
    /\ Len(tm_tasks) = 1

(* C8: right after create_task for owner u, get_task(id, u) gives a row    *)
(* with status "incomplete", user_id u, the title sent trimmed and the     *)
(* description sent trimmed, None when none was sent.                      *)
C8_CreateThenGet ==
    (Answered /\ last.service = "create_task") =>
        LET body == last.request.body
            u == last.request.path_user
            row == TaskService_get_task(tasks, last.response.data.id, u)
        IN  /\ row # None
            /\ row.status = "incomplete"
            /\ row.user_id = u
            /\ row.title = Strip(body.title)
            /\ row.description = IF body.description = None THEN None
                                 ELSE Strip(body.description)

(* a task was created from a padded title and a padded description *)
C8_Witness ==
    /\ Answered
    /\ last.service = "create_task"
    /\ last.response.status = 201
    /\ last.request.body = Body(Pad(Rep("a", 1)), Pad(Rep("d", 1)))

(* the create bodies C9 speaks of: title empty, blank once trimmed or      *)
(* longer than 255, or description longer than 10000                       *)
RejectedCreateBody(body) ==
    \/ /\ body.title # None
       /\ \/ StrLen(body.title) = 0
          \/ StrLen(Strip(body.title)) = 0
          \/ StrLen(body.title) > 255
    \/ /\ body.description # None
       /\ StrLen(body.description) > 10000

(* C9: such a create request, sent by the owner, is refused as a           *)
(* validation error (422), calls no service, and leaves the table, the id  *)
(* sequence and the highest id issued as they were.                        *)
C9_InvalidCreateRejected ==
    [][(/\ Answering
        /\ last'.request.route = "create_task"
        /\ ByOwner(last')
        /\ RejectedCreateBody(last'.request.body))
       => (/\ last'.response.status = 422
           /\ last'.service = ""
           /\ tasks' = tasks
           /\ task_seq' = task_seq
           /\ max_issued' = max_issued)]_vars

(* a title of 256 characters was refused while the table held a row *)
C9_Witness ==
    /\ Answered
    /\ last.request.route = "create_task"
    /\ ByOwner(last)
    /\ last.request.body = Body(Rep("a", 256), None)
    /\ last.response.status = 422
    /\ tasks # {}

(* the titles C10 speaks of: empty, blank once trimmed, longer than 255 *)
InvalidTitle(v) ==
    v # None /\ (StrLen(v) = 0 \/ StrLen(Strip(v)) = 0 \/ StrLen(v) > 255)

(* C10: POST with an invalid title and PUT with an invalid supplied title, *)
(* sent by the owner, are answered 400.                                    *)
C10_InvalidTitleAnswered400 ==
    (/\ Answered
     /\ ByOwner(last)
     /\ last.request.route \in {"create_task", "update_task"}
     /\ InvalidTitle(last.request.body.title))
    => last.response.status = 400

(* n calls of TaskManager.toggle_task_status(task_id) in a row *)
RECURSIVE TogglesInARow(_, _, _)
TogglesInARow(ts, task_id, n) ==
    IF n = 0 THEN ts
    ELSE TogglesInARow(TaskManager_toggle_task_status(ts, task_id).tasks, task_id, n - 1)

(* C11: toggle_task_status called twice by the owner of an existing task,  *)
(* nothing else touching the task in between, gives back the row with its  *)
(* status, id, owner, title, description and created_at as they were and   *)
(* updated_at the time of the second call, every other row left alone; n   *)
(* calls of TaskManager.toggle_task_status leave the status as it was      *)
(* exactly when n is even, and change nothing but the status.              *)
C11_ToggleIsAnInvolution ==
    /\ \A row \in tasks, t1, t2 \in 0..MaxTime :
         t1 <= t2 =>
           LET once == TaskService_toggle_task_status(tasks, row.id, row.user_id, t1)
               twice == TaskService_toggle_task_status(once.tasks, row.id,
                                                       row.user_id, t2)
           IN  /\ once.result # None
               /\ once.result.status # row.status
               /\ once.result = [row EXCEPT !.status = once.result.status,
                                            !.updated_at = t1]
               /\ twice.result = [row EXCEPT !.updated_at = t2]
               /\ twice.tasks = (tasks \ {row}) \cup {twice.result}
    /\ \A i \in DOMAIN tm_tasks, n \in 0..MaxToggles :
         LET ts == TogglesInARow(tm_tasks, tm_tasks[i].id, n)
         IN  /\ (ts[i].status = tm_tasks[i].status) <=> (n % 2 = 0)
             /\ ts = [tm_tasks EXCEPT ![i].status = ts[i].status]

(* the owner's toggle was answered with the task back at "incomplete",     *)
(* which it left by an earlier toggle, while the table held another row    *)
C11_Witness ==
    /\ Answered
    /\ last.service = "toggle_task"
    /\ last.response.status = 200
    /\ last.response.data.status = "incomplete"
    /\ last.held # None
    /\ last.held.status = "complete"
    /\ Cardinality(tasks) > 1

(* C12: on every reachable table, delete_task(id, uid) returns True        *)
(* exactly when a row with that id owned by uid exists, and then the table *)
(* loses that row and no other; otherwise it returns False and the table   *)
(* is as it was.  The same call made again returns False and changes       *)
(* nothing, so a call that failed gives the same result and table however  *)
(* often it is made.  A DELETE request answers 204 exactly when the lookup *)
(* held a row, and that row is gone afterwards.                            *)
C12_DeleteExactlyOwnedRow ==
    /\ \A id \in 1..(MaxId + 1), uid \in Users :
         LET owned == {r \in tasks : r.id = id /\ r.user_id = uid}
             first == TaskService_delete_task(tasks, id, uid)
             again == TaskService_delete_task(first.tasks, id, uid)
         IN  /\ first.result = (owned # {})
             /\ first.tasks = tasks \ owned
             /\ Cardinality(owned) <= 1
             /\ again.result = FALSE
             /\ again.tasks = first.tasks
             /\ owned = {} => again = first
    /\ (Answered /\ last.service = "delete_task") =>
         /\ (last.response.status = 204) = (last.held # None)
         /\ last.response.status \in {204, 404}
         /\ ~\E r \in tasks : r.id = last.request.id.v
                                /\ r.user_id = last.request.path_user

(* the owner's DELETE was answered 204 and the row of the other user is    *)
(* still there                                                             *)
C12_Witness ==
    /\ Answered
    /\ last.service = "delete_task"
    /\ last.response.status = 204
    /\ \E r \in tasks : r.user_id # last.request.path_user

(* the row an update with body makes of row at time t, as C13 words it *)
UpdatedAsSupplied(row, body, t) ==
    [row EXCEPT !.title = IF body.title # None THEN Strip(body.title) ELSE @,
                !.description = IF body.description # None
                                THEN Strip(body.description) ELSE @,
                !.updated_at = t]

(* C13: on every table the server holds between two requests, update_task  *)
(* by the owner with a body the schema accepts, at any time t, gives the   *)
(* row with each                                                           *)
(* supplied field among title and description set to the supplied value    *)
(* trimmed, each field not supplied as it was, the status as it was and    *)
(* updated_at = t, and leaves every other row as it was; and every PUT     *)
(* answered 200 returned that row, made of the row its lookup held.        *)
C13_UpdateChangesExactlySuppliedFields ==
    /\ ~Answered =>
         \A row \in tasks, body \in UpdateBodies, t \in 0..MaxTime :
            LET r == TaskService_update_task(tasks, row.id, row.user_id,
                                             TaskUpdate(body), t)
            IN  /\ r.result = UpdatedAsSupplied(row, body, t)
                /\ r.result.status = row.status
                /\ r.tasks = (tasks \ {row}) \cup {r.result}
    /\ (Answered /\ last.service = "update_task" /\ last.response.status = 200) =>
         /\ last.held # None
         /\ last.response.data = UpdatedAsSupplied(last.held, last.request.body, last.at)
         /\ last.response.data \in tasks

(* a PUT that supplied only a title was answered 200 for a task that has a *)
(* description, while the table held a second row                          *)
C13_Witness ==
    /\ Answered
    /\ last.service = "update_task"
    /\ last.response.status = 200
    /\ last.request.body.title # None
    /\ last.request.body.description = None
    /\ last.held.description # None
    /\ last.held.title # last.response.data.title
    /\ Cardinality(tasks) > 1

(* C14: a PUT by the owner of an existing task that supplies neither a     *)
(* title nor a description is refused (a 4xx answer), or the row is        *)
(* afterwards what it was before, every field the same.                    *)
C14_EmptyUpdateRejectedOrNoChange ==
    (/\ Answered
     /\ last.request.route = "update_task"
     /\ last.request.body.title = None
     /\ last.request.body.description = None
     /\ last.held # None)
    => \/ last.response.status >= 400
       \/ /\ last.held \in tasks
          /\ last.response.data = last.held

(* of two rows the table holds together, the one created later: a new row  *)
(* gets an id above every id in the table, under both dialects             *)
CreatedLater(r1, r2) == r1.id > r2.id

(* C15: the list a GET /api/users/uid/tasks[?status=f] returns holds       *)
(* exactly the rows with user_id = uid (and status = f when the filter is  *)
(* given), each once, and a task created later never comes after a task    *)
(* created earlier.                                                        *)
C15_ListIsOwnersNewestFirst ==
    (Answered /\ last.service = "get_user_tasks" /\ last.response.status = 200) =>
        LET q == last.response.list
            uid == last.request.path_user
            f == last.request.status
        IN  /\ {q[i] : i \in DOMAIN q} =
                  {r \in tasks : r.user_id = uid /\ (f # "" => r.status = f)}
            /\ \A i, j \in DOMAIN q : q[i] = q[j] => i = j
            /\ \A i, j \in DOMAIN q : CreatedLater(q[j], q[i]) => j < i

(* C16: the row a successful create_task returns has created_at equal to   *)
(* updated_at.                                                             *)
C16_CreatedAtEqualsUpdatedAt ==
    (Answered /\ last.service = "create_task" /\ last.response.status = 201) =>
        last.response.data.created_at = last.response.data.updated_at

(* what a row keeps from its creation to its deletion *)
Identity(tbl) == {<<r.id, r.user_id, r.created_at>> : r \in tbl}

(* C17: on every table the server holds between two requests, a call of   *)
(* update_task or toggle_task_status -- for any user, id, accepted body    *)
(* and time -- leaves the table with the same rows by id, each with the    *)
(* user_id and the created_at it had; and the row a PUT or PATCH request   *)
(* returned has the id, user_id and created_at of the row its lookup held. *)
C17_IdOwnerCreatedAtNeverChange ==
    /\ ~Answered =>
         \A uid \in Users, id \in 1..(MaxId + 1), t \in 0..MaxTime :
            /\ \A body \in UpdateBodies :
                 LET r == TaskService_update_task(tasks, id, uid,
                                                  TaskUpdate(body), t)
                 IN  /\ Identity(r.tasks) = Identity(tasks)
                     /\ Cardinality(r.tasks) = Cardinality(tasks)
            /\ LET r == TaskService_toggle_task_status(tasks, id, uid, t)
               IN  /\ Identity(r.tasks) = Identity(tasks)
                   /\ Cardinality(r.tasks) = Cardinality(tasks)
    /\ (/\ Answered
        /\ last.service \in {"update_task", "toggle_task"}
        /\ last.held # None)
       => /\ last.response.data \in tasks
          /\ Identity({last.response.data}) = Identity({last.held})

(* a PUT was answered 200 after the clock had moved: the row it returned   *)
(* was created earlier than it was last updated, and the table holds a row *)
(* of the other user too                                                   *)
C17_Witness ==
    /\ Answered
    /\ last.service = "update_task"
    /\ last.response.status = 200
    /\ last.response.data.created_at < last.response.data.updated_at
    /\ last.response.data.created_at = last.held.created_at
    /\ \E r \in tasks : r.user_id # last.request.path_user

(* process w has answered its request *)
Finished(w) == sessions[w].pc \in {"answered", "released", "completed"}

(* the owner's request to change the row it names, which the table held    *)
(* when the request came                                                   *)
WritesOwnRow(w) ==
    LET request == sessions[w].request IN
    /\ request.route \in WritingRoutes
    /\ request.header = GoodHeader(request.path_user)
    /\ request_validation(request).ok
    /\ \E r \in sessions[w].base : r.id = request.id.v
                                    /\ r.user_id = request.path_user

(* C18: two requests of one owner that change the same row and came to the *)
(* same table, each with its own session, leave the table and get the      *)
(* responses that one of the two serial orders gives.                      *)
C18_SameRowWritesSerialized ==
    (/\ Finished("w1") /\ Finished("w2")
     /\ WritesOwnRow("w1") /\ WritesOwnRow("w2")
     /\ sessions["w1"].request.path_user = sessions["w2"].request.path_user
     /\ sessions["w1"].request.id = sessions["w2"].request.id
     /\ sessions["w1"].base = sessions["w2"].base)
    => \E order \in {<<"w1", "w2">>, <<"w2", "w1">>} :
          LET nd == [t2 |-> now, q |-> <<>>]
              o1 == App(sessions["w1"].base, task_seq, dialect, now,
                        sessions[order[1]].request, nd)
              o2 == App(o1.tasks, task_seq, dialect, now,
                        sessions[order[2]].request, nd)
          IN  /\ tasks = o2.tasks
              /\ sessions[order[1]].response = o1.response
              /\ sessions[order[2]].response = o2.response

(* C20: a request that obtained a session from get_session releases it in  *)
(* the end, whether its handler returned, raised HTTPException or ended    *)
(* with another exception; and no request is completed with its session    *)
(* still open.                                                             *)
C20_SessionReleasedOnEveryExit ==
    /\ [](\A w \in Workers : sessions[w].pc = "completed" => ~sessions[w].open)
    /\ \A w \in Workers : sessions[w].open ~> ~sessions[w].open

(* one request that ended with an exception outside the handler's try      *)
(* block and one that ended with an HTTPException are completed, each      *)
(* after having held a session                                             *)
C20_Witness ==
    /\ sessions["w1"].pc = "completed"
    /\ sessions["w1"].exit = "Exception"
    /\ sessions["w2"].pc = "completed"
    /\ sessions["w2"].exit = "HTTPException"
    /\ sessions["w2"].response.status = 404

(* the last request came from the observed user *)
ObservedAnswered == Answered /\ last.request.header.token.sub = Observed

(* C19 as claimed: every response the observed user receives -- status,    *)
(* detail and rows with all their fields, the id included -- is the        *)
(* response of the run from which the other user's requests are removed.   *)
C19_ResponsesSameWithoutOtherUser ==
    ObservedAnswered => last.response = purged.response

(* a response with each row's id replaced by the id the task has in the    *)
(* purged run                                                              *)
ResponseInPurgedRun(ids, response) ==
    [response EXCEPT
        !.data = IF @ = None THEN @ ELSE InPurgedRun(ids, @),
        !.list = [i \in DOMAIN @ |-> InPurgedRun(ids, @[i])]]

(* C19 amended: every response the observed user receives is that of the   *)
(* run without the other user's requests up to the ids of its tasks -- the *)
(* same status and detail and the same rows, each with the id the task has *)
(* in that run and every other field equal; and the rows the observed     *)
(* user owns are, under that pairing of ids, the rows of that run.         *)
C19_ResponsesSameUpToIds ==
    /\ {InPurgedRun(purged.ids, r) : r \in {x \in tasks : x.user_id = Observed}}
          = purged.tasks
    /\ \A p1, p2 \in purged.ids : (p1[1] = p2[1]) = (p1[2] = p2[2])
    /\ ObservedAnswered =>
          ResponseInPurgedRun(purged.ids, last.response) = purged.response

(* the observed user read a task of its own whose id is not the id the     *)
(* task has in the run without the other user's requests, while the table  *)
(* holds a task of the other user                                          *)
C19_Witness ==
    /\ ObservedAnswered
    /\ last.service = "get_task"
    /\ last.response.status = 200
    /\ last.response.data.id # purged.response.data.id
    /\ \E r \in tasks : r.user_id = Removed

(* C21: after any interleaving of signups no two User rows have the same   *)
(* email, and a signup for an email that another signup registered --      *)
(* before it came, or while it was under way -- is answered with 400 and   *)
(* is not the signup that made the row.                                    *)
SignupAnswered(w) ==
    /\ sessions[w].pc \in {"answered", "released", "completed"}
    /\ sessions[w].request.route = "signup"

RegisteredByAnother(w) ==
    \E r \in users :
        /\ r.email = sessions[w].request.body.email
        /\ ~(sessions[w].response.status = 200
             /\ sessions[w].response.data.user.id = r.id)

C21_DuplicateSignupAnswered400 ==
    /\ \A r1, r2 \in users : r1.email = r2.email => r1 = r2
    /\ \A w \in Workers :
          SignupAnswered(w) /\ RegisteredByAnother(w)
              => sessions[w].response.status = 400

(* C22: the gate keeps no state between requests: its decision for a       *)
(* request is a function of the request's Authorization header, its path   *)
(* and the current time only -- two requests that agree on the three get   *)
(* the same decision, whatever was asked in between, a logout included.    *)
SameHeaderPathTime(e1, e2) ==
    /\ e1.header = e2.header
    /\ e1.route = e2.route /\ e1.path_user = e2.path_user
    /\ e1.at = e2.at

SameDecision(e1, e2) == e1.admit = e2.admit /\ e1.status = e2.status

C23_CompleteAndIncompleteSetTheStatus ==
    LET task == TaskManager_get_task(tm_tasks, tm_last.id) IN
    /\ tm_last.op = "complete_command" /\ task # None => task.status = "complete"
    /\ tm_last.op = "incomplete_command" /\ task # None => task.status = "incomplete"

(* C24: every rejected CLI command leaves the TaskManager unchanged (same  *)
(* task list, same next id), and these are rejected: add_command with an   *)
(* empty or whitespace-only title; update_command with such a title or     *)
(* with neither title nor description; update, delete, complete and        *)
(* incomplete commands with an id that is no integer or not in the store.  *)
BlankTitle(v) == v # None /\ ~Truthy(Strip(v))

(* the command l is one of those listed, ts being the store it was run on *)
ToBeRejected(l, ts) ==
    \/ l.op = "add_command" /\ BlankTitle(l.args.title)
    \/ /\ l.op = "update_command"
       /\ \/ BlankTitle(l.args.title)
          \/ l.args.title = None /\ l.args.description = None
    \/ /\ l.op \in CliOps \ {"add_command"}
       /\ \/ ~l.args.id.ok
          \/ \A i \in DOMAIN ts : ts[i].id # l.args.id.v

C24_RejectedCommandChangesNothing ==
    [][tm_last'.op \in CliOps =>
          /\ ToBeRejected(tm_last', tm_tasks) => tm_last'.out \in CliErrors
          /\ tm_last'.out \in CliErrors
                => tm_tasks' = tm_tasks /\ tm_next_id' = tm_next_id]_vars

(* an update with a blank title was refused on a store that holds the task *)
C24_Witness ==
    /\ tm_last.op = "update_command"
    /\ tm_last.out = "Error: Title cannot be empty"
    /\ \E i \in DOMAIN tm_tasks : tm_tasks[i].id = tm_last.args.id.v

(* C25: list_tasks returns the stored tasks in the order they were added:  *)
(* add_task puts the new task last, update_task and toggle_task_status     *)
(* keep every task's position, delete_task keeps the order of the tasks    *)
(* that remain; and the list returned is a copy -- a caller that changes   *)
(* it leaves the store as it was.                                          *)
IdsOf(ts) == [i \in DOMAIN ts |-> ts[i].id]

Others(ts, task_id) == SelectSeq(ts, LAMBDA task : task.id # task_id)

(* r is what a call with task_id gave on the store ts *)
OnlyTheNamedTask(ts, r, task_id, deletes) ==
    LET present == \E i \in DOMAIN ts : ts[i].id = task_id IN
    /\ r.result = present
    /\ ~present => r.tasks = ts
    /\ Others(r.tasks, task_id) = Others(ts, task_id)
    /\ present /\ deletes => Len(r.tasks) = Len(ts) - 1
    /\ present /\ ~deletes
         => /\ Len(r.tasks) = Len(ts)
            /\ \A i \in DOMAIN ts : ts[i].id # task_id => r.tasks[i] = ts[i]

C26_OnlyTheNamedTaskIsAffected ==
    \A task_id \in TmIds :
        /\ OnlyTheNamedTask(tm_tasks, TaskManager_delete_task(tm_tasks, task_id),
                            task_id, TRUE)
        /\ OnlyTheNamedTask(tm_tasks, TaskManager_toggle_task_status(tm_tasks, task_id),
                            task_id, FALSE)
        /\ \A title \in TmTitles \cup {None}, description \in TmDescriptions \cup {None} :
              OnlyTheNamedTask(tm_tasks,
                               TaskManager_update_task(tm_tasks, task_id, title,
                                                       description),
                               task_id, FALSE)

(* the second of two tasks was updated *)
C26_Witness ==
    /\ tm_last.op = "update_task" /\ tm_last.ok
    /\ Len(tm_tasks) = 2
    /\ tm_tasks[2].id = tm_last.id

---------------------------------------------------------------------------
(* C27: TaskManager.update_task(id, title, description) on an existing     *)
(* task sets title, respectively description, to the given value when it   *)
(* is not None and keeps the current value when it is None; id, status and *)
(* created_at of the task are unchanged, and a sequence of updates leaves  *)
(* the values of the last non-None arguments.                              *)
UpdateArgs ==
    {[title |-> title, description |-> description] :
        title \in TmTitles \cup {None}, description \in TmDescriptions \cup {None}}

Given(value, current) == IF value # None THEN value ELSE current

(* the task `old` after update_task with the arguments a, as the claim     *)
(* states it                                                               *)
Updated(old, a) ==
    TmTask(old.id, Given(a.title, old.title),
           Given(a.description, old.description), old.status, old.created_at)

C27_UpdateSetsTheGivenValues ==
    \A i \in DOMAIN tm_tasks : \A a \in UpdateArgs :
        LET old == tm_tasks[i]
            r1 == TaskManager_update_task(tm_tasks, old.id, a.title, a.description)
        IN  /\ r1.result
            /\ TaskManager_get_task(r1.tasks, old.id) = Updated(old, a)
            /\ \A b \in UpdateArgs :
                   LET r2 == TaskManager_update_task(r1.tasks, old.id,
                                                     b.title, b.description)
                   IN  TaskManager_get_task(r2.tasks, old.id) =
                           TmTask(old.id,
                                  Given(b.title, Given(a.title, old.title)),
                                  Given(b.description,
                                        Given(a.description, old.description)),
                                  old.status, old.created_at)

(* an update has changed the description of a completed task to the empty  *)
(* string                                                                  *)
C27_Witness ==
    /\ tm_last.op = "update_task"
    /\ tm_last.ok
    /\ \E i \in DOMAIN tm_tasks :
          /\ tm_tasks[i].id = tm_last.id
          /\ tm_tasks[i].status = "complete"
          /\ tm_tasks[i].title = Rep("b", 1)
          /\ tm_tasks[i].description = Rep("d", 0)

---------------------------------------------------------------------------
(* C28: a token issued by signup or login for user u has subject u.id and  *)
(* is admitted by the gate on /api/users/{u.id}/... at every time before   *)
(* its expiry, 7 days after issue, and is rejected with 401 at every time  *)
(* after its expiry; it is never admitted on a path whose user_id is not   *)
(* u.id.  Admitted: the middleware passes the request on with              *)
(* request.state.user_id = u.id and the handler's user_id check lets it    *)
(* reach its TaskService call.                                             *)
WithIssuedToken ==
    /\ last # NoLast
    /\ issued # None
    /\ last.request.route \in Routes
    /\ last.request.header = Header("Bearer", issued.token)

AdmittedFor(l, user_id) ==
    /\ \E i \in DOMAIN l.steps : l.steps[i] = "call_next"
    /\ l.user_id = user_id
    /\ l.service # ""
    /\ l.response.status \notin {401, 403}

C28_IssuedTokenAdmittedUntilExpiry ==
    /\ issued # None =>
          /\ issued.token.sub = issued.user.id
          /\ \E r \in users : r.id = issued.user.id /\ r.email = issued.user.email
    /\ WithIssuedToken =>
          LET u == issued.user
              expiry == issued.at + TokenDays
              own == last.request.path_user = u.id
          IN  /\ own /\ last.at < expiry => AdmittedFor(last, u.id)
              /\ last.at > expiry =>
                    /\ last.response.status = 401
                    /\ last.service = ""
              /\ ~own => /\ last.service = ""
                         /\ last.response.status \notin 200..299
                         /\ ~AdmittedFor(last, last.request.path_user)

(* a token issued after day 0 was refused with 401 on its user's path      *)
(* after its expiry                                                        *)
C28_Witness ==
    /\ WithIssuedToken
    /\ issued.at > 0
    /\ last.request.path_user = issued.user.id
    /\ last.at > issued.at + TokenDays
    /\ last.response.status = 401

---------------------------------------------------------------------------
(* C29: AgentOrchestrator.execution_history grows by exactly one entry,    *)
(* appended in call order, for every execute_agent call whose agent is     *)
(* registered and every execute_skill call whose skill is registered and   *)
(* passes validate, whether the result reports success or failure; a call  *)
(* naming an unknown agent or skill returns success False with a 'not      *)
(* found' message and appends nothing; clear_history empties the history.  *)

(* what each call would do to the orchestrator as it is *)
CallsRecorded(o, ts, next_id, t) ==
    /\ \A agent_name \in OrchAgentNames, user_input \in OrchInputs \cup {None} :
          LET r == AgentOrchestrator_execute_agent(o, ts, next_id, agent_name,
                                                   user_input, t)
          IN  IF agent_name \in RegisteredAgents
              THEN r.orchestrator.execution_history =
                       Append(o.execution_history,
                              AgentEntry(agent_name, user_input, r.result))
              ELSE /\ r.result = Failure("Agent not found")
                   /\ r.orchestrator = o
    /\ \A skill_name \in RegisteredSkills \cup OrchSkillNames,
          user_input \in OrchInputs \cup {None} :
          LET r == AgentOrchestrator_execute_skill(o, ts, next_id, skill_name,
                                                   user_input, t)
          IN  IF skill_name \in RegisteredSkills
              THEN Skill_validate(o.task_manager) =>
                       r.orchestrator.execution_history =
                           Append(o.execution_history,
                                  SkillEntry(skill_name, user_input, r.result))
              ELSE /\ r.result = Failure("Skill not found")
                   /\ r.orchestrator = o
    /\ AgentOrchestrator_clear_history(o).execution_history = <<>>

(* what a step does to the history: nothing (and then the call reported no *)
(* success), one entry more at the end, holding the result returned, or    *)
(* the history emptied by clear_history                                    *)
HistoryStep(h, h2, l) ==
    \/ h2 = h /\ ~l.ok
    \/ /\ l.op \in {"execute_agent", "execute_skill"}
       /\ Len(h2) = Len(h) + 1
       /\ SubSeq(h2, 1, Len(h)) = h
       /\ h2[Len(h2)].result.success = l.ok
    \/ l.op = "clear_history" /\ h2 = <<>>

C29_HistoryRecordsEveryExecution ==
    [][orchestrator # None =>
          /\ CallsRecorded(orchestrator, tm_tasks, tm_next_id, now)
          /\ orchestrator' # None
          /\ HistoryStep(orchestrator.execution_history,
                         orchestrator'.execution_history, tm_last')]_vars

(* the history holds a failed execution of an agent and, after it, a       *)
(* successful execution of a skill                                         *)
C29_Witness ==
    /\ orchestrator # None
    /\ tm_last.op = "execute_skill"
    /\ Len(orchestrator.execution_history) = 2
    /\ "agent" \in DOMAIN orchestrator.execution_history[1]
    /\ ~orchestrator.execution_history[1].result.success
    /\ "skill" \in DOMAIN orchestrator.execution_history[2]
    /\ orchestrator.execution_history[2].result.success

---------------------------------------------------------------------------
====
